---- MODULE Spec2Model ----
(***************************************************************************)
(* Model of the SmartAdvisorServer request-dispatch engine                 *)
(* (src/unnamed/part_001): input validation and sanitisation, the fixed    *)
(* window rate limiter, the TTL/LRU response cache, strategy routing, the  *)
(* retrying dispatcher and the fan-out to all advisors.                    *)
(*                                                                         *)
(* Texts (task, context, cache keys, routing decisions) are sequences of   *)
(* one-character strings, so that the regular expressions, the sanitiser   *)
(* and the key concatenation are computed character by character.          *)
(* Characters with no TLA+ literal are written by their code: "x00" is     *)
(* U+0000, "x0B" is U+000B, "x60" is the grave accent, "xA0" is U+00A0.   *)
(***************************************************************************)
EXTENDS Integers, Sequences, FiniteSets, TLC

(***************************************************************************)
(* this.config, as loadConfig leaves it.  It is set once, by Init, and     *)
(* never changes.  Times are in clock ticks.                               *)
(***************************************************************************)
VARIABLE config

(***************************************************************************)
(* Characters                                                              *)
(***************************************************************************)
Uppers ==
  <<"A", "B", "C", "D", "E", "F", "G", "H", "I", "J", "K", "L", "M",
    "N", "O", "P", "Q", "R", "S", "T", "U", "V", "W", "X", "Y", "Z">>

Lowers ==
  <<"a", "b", "c", "d", "e", "f", "g", "h", "i", "j", "k", "l", "m",
    "n", "o", "p", "q", "r", "s", "t", "u", "v", "w", "x", "y", "z">>

Digits == {"0", "1", "2", "3", "4", "5", "6", "7", "8", "9"}

\* String.prototype.toLowerCase, one character
LowerChar(c) ==
  IF \E i \in 1..26 : Uppers[i] = c
    THEN Lowers[CHOOSE i \in 1..26 : Uppers[i] = c]
    ELSE c

\* String.prototype.toLowerCase
toLowerCase(s) == [i \in 1..Len(s) |-> LowerChar(s[i])]

\* the class \s of a JavaScript regular expression (and what trim() removes)
IsSpace(c) == c \in {" ", "\t", "\n", "\r", "x0B", "x0C", "xA0"}

\* the class \w
IsWord(c) ==
  \/ \E i \in 1..26 : c = Uppers[i] \/ c = Lowers[i]
  \/ c \in Digits
  \/ c = "_"

\* the class [^>]
IsNotGt(c) == c # ">"

\* the class [\x00-\x08\x0B\x0C\x0E-\x1F\x7F] of sanitizeInput
IsControl(c) ==
  c \in {"x00", "x01", "x02", "x03", "x04", "x05", "x06", "x07", "x08",
         "x0B", "x0C", "x0E", "x0F", "x10", "x11", "x12", "x13", "x14",
         "x15", "x16", "x17", "x18", "x19", "x1A", "x1B", "x1C", "x1D",
         "x1E", "x1F", "x7F"}

(***************************************************************************)
(* Regular-expression matching.  A set of positions P holds the numbers of *)
(* characters of s consumed so far by the alternatives still alive; each   *)
(* combinator returns the positions after its own piece.  A pattern        *)
(* matches somewhere in s (RegExp.prototype.test, no anchors) iff starting *)
(* from every position leaves some position alive.                         *)
(***************************************************************************)
Positions(s) == 0..Len(s)

\* a literal, compared case-insensitively (flag i)
Lit(s, P, w) ==
  { p + Len(w) :
      p \in { q \in P : /\ q + Len(w) <= Len(s)
                        /\ \A i \in 1..Len(w) :
                             LowerChar(s[q + i]) = LowerChar(w[i]) } }

\* the character classes of the patterns: white space, word, anything but >
InClass(class, c) ==
  CASE class = "space" -> IsSpace(c)
    [] class = "word" -> IsWord(c)
    [] class = "notgt" -> IsNotGt(c)

\* C* for a character class C
Star(class, s, P) ==
  { q \in Positions(s) : \E p \in P : p <= q /\ \A i \in (p + 1)..q : InClass(class, s[i]) }

\* C+ for a character class C
Plus(class, s, P) ==
  { q \in Positions(s) : \E p \in P : p < q /\ \A i \in (p + 1)..q : InClass(class, s[i]) }

\* w? for a literal w
Opt(s, P, w) == P \cup Lit(s, P, w)

\* \s+ and \s*
Sp1(s, P) == Plus("space", s, P)

Sp0(s, P) == Star("space", s, P)

\* instructions? | prompts? | rules? style plural
Plural(s, P, w) == Opt(s, Lit(s, P, w), <<"s">>)

\* the literal words of the patterns (fence: three grave accents, U+0060)
Word ==
  [script |-> <<"<", "s", "c", "r", "i", "p", "t">>,
   javascript |-> <<"j", "a", "v", "a", "s", "c", "r", "i", "p", "t", ":">>,
   on |-> <<"o", "n">>,
   datahtml |-> <<"d", "a", "t", "a", ":", "t", "e", "x", "t", "/", "h", "t", "m", "l">>,
   vbscript |-> <<"v", "b", "s", "c", "r", "i", "p", "t", ":">>,
   ignore |-> <<"i", "g", "n", "o", "r", "e">>,
   previous |-> <<"p", "r", "e", "v", "i", "o", "u", "s">>,
   above |-> <<"a", "b", "o", "v", "e">>,
   all |-> <<"a", "l", "l">>,
   the |-> <<"t", "h", "e">>,
   instruction |-> <<"i", "n", "s", "t", "r", "u", "c", "t", "i", "o", "n">>,
   prompt |-> <<"p", "r", "o", "m", "p", "t">>,
   rule |-> <<"r", "u", "l", "e">>,
   forget |-> <<"f", "o", "r", "g", "e", "t">>,
   everything |-> <<"e", "v", "e", "r", "y", "t", "h", "i", "n", "g">>,
   system |-> <<"s", "y", "s", "t", "e", "m">>,
   you |-> <<"y", "o", "u">>,
   are |-> <<"a", "r", "e">>,
   now |-> <<"n", "o", "w">>,
   act |-> <<"a", "c", "t">>,
   as |-> <<"a", "s">>,
   if |-> <<"i", "f">>,
   pretend |-> <<"p", "r", "e", "t", "e", "n", "d">>,
   to |-> <<"t", "o">>,
   be |-> <<"b", "e">>,
   roleplay |-> <<"r", "o", "l", "e", "p", "l", "a", "y">>,
   new |-> <<"n", "e", "w">>,
   disregard |-> <<"d", "i", "s", "r", "e", "g", "a", "r", "d">>,
   override |-> <<"o", "v", "e", "r", "r", "i", "d", "e">>,
   simulate |-> <<"s", "i", "m", "u", "l", "a", "t", "e">>,
   being |-> <<"b", "e", "i", "n", "g">>,
   bsystem |-> <<"[", "S", "Y", "S", "T", "E", "M", "]">>,
   psystem |-> <<"<", "|", "s", "y", "s", "t", "e", "m", "|", ">">>,
   fence |-> <<"x60", "x60", "x60">>]

\* you\s+are
YouAre(s, P) == Lit(s, Sp1(s, Lit(s, P, Word.you)), Word.are)

\* scriptInjectionPatterns, in the order of the source
\* /<script[^>]*>/i
Script1(s) == Lit(s, Star("notgt", s, Lit(s, Positions(s), Word.script)), <<">">>) # {}

\* /javascript:/i
Script2(s) == Lit(s, Positions(s), Word.javascript) # {}

\* /on\w+\s*=/i
Script3(s) == Lit(s, Sp0(s, Plus("word", s, Lit(s, Positions(s), Word.on))), <<"=">>) # {}

\* /data:text\/html/i
Script4(s) == Lit(s, Positions(s), Word.datahtml) # {}

\* /vbscript:/i
Script5(s) == Lit(s, Positions(s), Word.vbscript) # {}

scriptInjectionPatterns(s) ==
  Script1(s) \/ Script2(s) \/ Script3(s) \/ Script4(s) \/ Script5(s)

\* promptInjectionPatterns, in the order of the source
\* /ignore\s+(previous|above|all|the)\s+(instructions?|prompts?|rules?)/i
Prompt1(s) ==
  LET a == Sp1(s, Lit(s, Positions(s), Word.ignore))
      b == Sp1(s, Lit(s, a, Word.previous) \cup Lit(s, a, Word.above)
                    \cup Lit(s, a, Word.all) \cup Lit(s, a, Word.the))
  IN  (Plural(s, b, Word.instruction) \cup Plural(s, b, Word.prompt)
         \cup Plural(s, b, Word.rule)) # {}

\* /forget\s+(everything|all|previous)/i
Prompt2(s) ==
  LET a == Sp1(s, Lit(s, Positions(s), Word.forget))
  IN  (Lit(s, a, Word.everything) \cup Lit(s, a, Word.all) \cup Lit(s, a, Word.previous)) # {}

\* /system\s*[:]\s*you\s+are\s+now/i
Prompt3(s) ==
  LET a == Sp0(s, Lit(s, Sp0(s, Lit(s, Positions(s), Word.system)), <<":">>))
  IN  Lit(s, Sp1(s, YouAre(s, a)), Word.now) # {}

\* /act\s+as\s+if\s+you\s+are/i
Prompt4(s) ==
  LET a == Sp1(s, Lit(s, Sp1(s, Lit(s, Positions(s), Word.act)), Word.as))
  IN  YouAre(s, Sp1(s, Lit(s, a, Word.if))) # {}

\* /pretend\s+(you\s+are|to\s+be)/i
Prompt5(s) ==
  LET a == Sp1(s, Lit(s, Positions(s), Word.pretend))
  IN  (YouAre(s, a) \cup Lit(s, Sp1(s, Lit(s, a, Word.to)), Word.be)) # {}

\* /roleplay\s+as/i
Prompt6(s) == Lit(s, Sp1(s, Lit(s, Positions(s), Word.roleplay)), Word.as) # {}

\* /new\s+(instructions?|rules?|system\s+prompt)/i
Prompt7(s) ==
  LET a == Sp1(s, Lit(s, Positions(s), Word.new))
  IN  (Plural(s, a, Word.instruction) \cup Plural(s, a, Word.rule)
         \cup Lit(s, Sp1(s, Lit(s, a, Word.system)), Word.prompt)) # {}

\* /disregard\s+(previous|all|above)/i
Prompt8(s) ==
  LET a == Sp1(s, Lit(s, Positions(s), Word.disregard))
  IN  (Lit(s, a, Word.previous) \cup Lit(s, a, Word.all) \cup Lit(s, a, Word.above)) # {}

\* /override\s+(instructions?|system|previous)/i
Prompt9(s) ==
  LET a == Sp1(s, Lit(s, Positions(s), Word.override))
  IN  (Plural(s, a, Word.instruction) \cup Lit(s, a, Word.system)
         \cup Lit(s, a, Word.previous)) # {}

\* /simulate\s+(being|you\s+are)/i
Prompt10(s) ==
  LET a == Sp1(s, Lit(s, Positions(s), Word.simulate))
  IN  (Lit(s, a, Word.being) \cup YouAre(s, a)) # {}

\* /\[SYSTEM\]/i
Prompt11(s) == Lit(s, Positions(s), Word.bsystem) # {}

\* /\<\|system\|\>/i
Prompt12(s) == Lit(s, Positions(s), Word.psystem) # {}

\* /(grave accent x3)\s*system/i
Prompt13(s) == Lit(s, Sp0(s, Lit(s, Positions(s), Word.fence)), Word.system) # {}

promptInjectionPatterns(s) ==
  \/ Prompt1(s) \/ Prompt2(s) \/ Prompt3(s) \/ Prompt4(s) \/ Prompt5(s)
  \/ Prompt6(s) \/ Prompt7(s) \/ Prompt8(s) \/ Prompt9(s) \/ Prompt10(s)
  \/ Prompt11(s) \/ Prompt12(s) \/ Prompt13(s)

(***************************************************************************)
(* validateInput and sanitizeInput                                         *)
(***************************************************************************)
ErrTaskLength == "Task exceeds maximum length"
ErrContextLength == "Context exceeds maximum length"
ErrScript == "Input contains potentially malicious script content"
ErrPrompt == "Input contains potential prompt injection patterns"

Rejected(why) == [isValid |-> FALSE, error |-> why]

\* validateInput without its two length checks
validateInput_unbounded(task, context) ==
  LET combinedInput == task \o <<" ">> \o context
  IN  IF scriptInjectionPatterns(combinedInput) THEN Rejected(ErrScript)
      ELSE IF promptInjectionPatterns(combinedInput) THEN Rejected(ErrPrompt)
      ELSE [isValid |-> TRUE, error |-> "none"]

\* validateInput with the two pattern loops in the other order
validateInput_promptFirst(task, context) ==
  IF Len(task) > config.maxTaskLength THEN Rejected(ErrTaskLength)
  ELSE IF Len(context) > config.maxContextLength THEN Rejected(ErrContextLength)
  ELSE LET combinedInput == task \o <<" ">> \o context
       IN  IF promptInjectionPatterns(combinedInput) THEN Rejected(ErrPrompt)
           ELSE IF scriptInjectionPatterns(combinedInput) THEN Rejected(ErrScript)
           ELSE [isValid |-> TRUE, error |-> "none"]

validateInput(task, context) ==
  IF Len(task) > config.maxTaskLength THEN Rejected(ErrTaskLength)
  ELSE IF Len(context) > config.maxContextLength THEN Rejected(ErrContextLength)
  ELSE LET combinedInput == task \o <<" ">> \o context
       IN  IF scriptInjectionPatterns(combinedInput) THEN Rejected(ErrScript)
           ELSE IF promptInjectionPatterns(combinedInput) THEN Rejected(ErrPrompt)
           ELSE [isValid |-> TRUE, error |-> "none"]

\* .replace(/[\x00-\x08\x0B\x0C\x0E-\x1F\x7F]/g, empty string)
StripControl(s) == SelectSeq(s, LAMBDA c : ~IsControl(c))

RECURSIVE DropSpaces(_)
DropSpaces(s) ==
  IF s # <<>> /\ IsSpace(Head(s)) THEN DropSpaces(Tail(s)) ELSE s

\* .replace(/\s+/g, one space)
RECURSIVE CollapseSpaces(_)
CollapseSpaces(s) ==
  IF s = <<>> THEN <<>>
  ELSE IF IsSpace(Head(s)) THEN <<" ">> \o CollapseSpaces(DropSpaces(Tail(s)))
  ELSE <<Head(s)>> \o CollapseSpaces(Tail(s))

RECURSIVE DropTrailingSpaces(_)
DropTrailingSpaces(s) ==
  IF s # <<>> /\ IsSpace(s[Len(s)])
    THEN DropTrailingSpaces(SubSeq(s, 1, Len(s) - 1))
    ELSE s

\* String.prototype.trim
trim(s) == DropTrailingSpaces(DropSpaces(s))

\* sanitizeInput without the final trim
sanitizeInput_untrimmed(input) == CollapseSpaces(StripControl(input))

sanitizeInput(input) == trim(CollapseSpaces(StripControl(input)))

(***************************************************************************)
(* Providers, strategies, tools                                            *)
(***************************************************************************)
\* the keys of MODELS, the 'all' of the fan-out key and two tool names, spelled
\* out for the template strings
Name ==
  [deepseek |-> <<"d", "e", "e", "p", "s", "e", "e", "k">>,
   google |-> <<"g", "o", "o", "g", "l", "e">>,
   openai |-> <<"o", "p", "e", "n", "a", "i">>,
   router |-> <<"r", "o", "u", "t", "e", "r">>,
   all |-> <<"a", "l", "l">>,
   smart_advisor |-> <<"s", "m", "a", "r", "t", "_", "a", "d", "v", "i", "s", "o", "r">>,
   code_review |-> <<"c", "o", "d", "e", "_", "r", "e", "v", "i", "e", "w">>]

\* Object.keys(MODELS), in insertion order
modelKeys == <<"deepseek", "google", "openai", "router">>

MODELS ==
  [deepseek |-> "deepseek/deepseek-chat-v3-0324",
   google |-> "google/gemini-2.5-pro",
   openai |-> "openai/o3",
   router |-> "openai/gpt-4o-mini"]

MODEL_NAMES ==
  [deepseek |-> "DeepSeek AI",
   google |-> "Google Gemini",
   openai |-> "OpenAI GPT",
   router |-> "GPT-4.1-Mini Router"]

\* ROUTING_STRATEGIES with a name the router has no case for
ROUTING_STRATEGIES_withRandom ==
  {"auto", "intelligence", "cost", "balance", "all", "deepseek", "google", "openai",
   "random"}

\* Object.keys(ROUTING_STRATEGIES)
ROUTING_STRATEGIES ==
  {"auto", "intelligence", "cost", "balance", "all", "deepseek", "google", "openai"}

validTools ==
  {"smart_advisor", "code_review", "get_advice", "expert_opinion", "smart_llm",
   "ask_expert", "review_code"}

\* Object.keys(MODELS).filter(k => k !== 'router')
mainProviders == {modelKeys[i] : i \in 1..Len(modelKeys)} \ {"router"}

\* a provider key or a tool name as text, for the template strings
Spell(id) == IF id \in DOMAIN Name THEN Name[id] ELSE <<id>>

\* the key of a single-provider request without the provider
singleCacheKey_noProvider(selectedProvider, task, context) ==
  task \o <<":">> \o context

\* `${selectedProvider}:${sanitizedTask}:${sanitizedContext}`
singleCacheKey(selectedProvider, task, context) ==
  Spell(selectedProvider) \o <<":">> \o task \o <<":">> \o context

\* callTool's cacheKey with the provider left out
cacheKey_byStrategy(q) == singleCacheKey(q.model, q.sTask, q.sCtx)

\* const cacheKey in callTool, for the invocation q
cacheKey(q) == singleCacheKey(q.provider, q.sTask, q.sCtx)

\* `all:${task}:${context}:${toolName}`
allCacheKey(task, context, toolName) ==
  Name.all \o <<":">> \o task \o <<":">> \o context \o <<":">> \o Spell(toolName)

(***************************************************************************)
(* checkRateLimit: the tracker maps a client id to {count, windowStart}    *)
(***************************************************************************)
MapSet(m, k, v) == [x \in DOMAIN m \cup {k} |-> IF x = k THEN v ELSE m[x]]

\* checkRateLimit comparing the count with > in place of >=
checkRateLimit_offByOne(tracker, clientId, t) ==
  IF clientId \notin DOMAIN tracker
    THEN [ok |-> TRUE,
          tracker |-> MapSet(tracker, clientId, [count |-> 1, windowStart |-> t])]
  ELSE IF t - tracker[clientId].windowStart > config.rateLimitWindow
    THEN [ok |-> TRUE,
          tracker |-> MapSet(tracker, clientId, [count |-> 1, windowStart |-> t])]
  ELSE IF tracker[clientId].count > config.rateLimitRequests
    THEN [ok |-> FALSE, tracker |-> tracker]
  ELSE [ok |-> TRUE,
        tracker |-> [tracker EXCEPT ![clientId].count = @ + 1]]

\* checkRateLimit counting the requests and refusing none
checkRateLimit_countOnly(tracker, clientId, t) ==
  IF clientId \notin DOMAIN tracker
    THEN [ok |-> TRUE,
          tracker |-> MapSet(tracker, clientId, [count |-> 1, windowStart |-> t])]
  ELSE IF t - tracker[clientId].windowStart > config.rateLimitWindow
    THEN [ok |-> TRUE,
          tracker |-> MapSet(tracker, clientId, [count |-> 1, windowStart |-> t])]
  ELSE [ok |-> TRUE,
        tracker |-> [tracker EXCEPT ![clientId].count = @ + 1]]

\* checkRateLimit starting a new window as soon as the window length has passed
checkRateLimit_resetAtBoundary(tracker, clientId, t) ==
  IF clientId \notin DOMAIN tracker
    THEN [ok |-> TRUE,
          tracker |-> MapSet(tracker, clientId, [count |-> 1, windowStart |-> t])]
  ELSE IF t - tracker[clientId].windowStart >= config.rateLimitWindow
    THEN [ok |-> TRUE,
          tracker |-> MapSet(tracker, clientId, [count |-> 1, windowStart |-> t])]
  ELSE IF tracker[clientId].count >= config.rateLimitRequests
    THEN [ok |-> FALSE, tracker |-> tracker]
  ELSE [ok |-> TRUE,
        tracker |-> [tracker EXCEPT ![clientId].count = @ + 1]]

\* checkRateLimit counting the requests it denies as well
checkRateLimit_countsDenied(tracker, clientId, t) ==
  IF clientId \notin DOMAIN tracker
    THEN [ok |-> TRUE,
          tracker |-> MapSet(tracker, clientId, [count |-> 1, windowStart |-> t])]
  ELSE IF t - tracker[clientId].windowStart > config.rateLimitWindow
    THEN [ok |-> TRUE,
          tracker |-> MapSet(tracker, clientId, [count |-> 1, windowStart |-> t])]
  ELSE [ok |-> tracker[clientId].count < config.rateLimitRequests,
        tracker |-> [tracker EXCEPT ![clientId].count = @ + 1]]

checkRateLimit(tracker, clientId, t) ==
  IF clientId \notin DOMAIN tracker
    THEN [ok |-> TRUE,
          tracker |-> MapSet(tracker, clientId, [count |-> 1, windowStart |-> t])]
  ELSE IF t - tracker[clientId].windowStart > config.rateLimitWindow
    THEN [ok |-> TRUE,
          tracker |-> MapSet(tracker, clientId, [count |-> 1, windowStart |-> t])]
  ELSE IF tracker[clientId].count >= config.rateLimitRequests
    THEN [ok |-> FALSE, tracker |-> tracker]
  ELSE [ok |-> TRUE,
        tracker |-> [tracker EXCEPT ![clientId].count = @ + 1]]

\* History of the requests of each client: when its current window began, how
\* many requests it has made in that window and how many were admitted.  A
\* window is over once more than rateLimitWindow has passed since it began.
Observed(w, clientId, t, ok) ==
  LET fresh == \/ clientId \notin DOMAIN w
               \/ t - w[clientId].start > config.rateLimitWindow
      admitted == IF ok THEN 1 ELSE 0
  IN  MapSet(w, clientId,
             IF fresh
               THEN [start |-> t, asked |-> 1, admitted |-> admitted]
               ELSE [start |-> w[clientId].start,
                     asked |-> w[clientId].asked + 1,
                     admitted |-> w[clientId].admitted + admitted])

(***************************************************************************)
(* The response cache: a Map, kept as the sequence of its entries in       *)
(* insertion order (the order a Map iterates in).                          *)
(***************************************************************************)
IndexOf(cache, key) ==
  IF \E i \in 1..Len(cache) : cache[i].key = key
    THEN CHOOSE i \in 1..Len(cache) : cache[i].key = key
    ELSE 0

\* Map.prototype.delete
RemoveAt(cache, i) ==
  [j \in 1..(Len(cache) - 1) |-> IF j < i THEN cache[j] ELSE cache[j + 1]]

\* Map.prototype.set: an existing key keeps its place, a new key goes last
MapPut(cache, entry) ==
  IF IndexOf(cache, entry.key) # 0
    THEN [cache EXCEPT ![IndexOf(cache, entry.key)] = entry]
    ELSE Append(cache, entry)

\* getCachedResponse keeping an entry for one tick too long
getCachedResponse_inclusive(cache, metrics, key, t) ==
  LET i == IndexOf(cache, key)
      counted == [metrics EXCEPT !.totalRequests = @ + 1]
  IN  IF i # 0 /\ t - cache[i].timestamp <= config.cacheTtl
        THEN [cache |-> [cache EXCEPT ![i].accessCount = @ + 1],
              metrics |-> [counted EXCEPT !.hits = @ + 1],
              found |-> TRUE,
              response |-> cache[i].response]
        ELSE [cache |-> IF i # 0 THEN RemoveAt(cache, i) ELSE cache,
              metrics |-> [counted EXCEPT !.misses = @ + 1],
              found |-> FALSE,
              response |-> <<>>]

\* getCachedResponse reading a TTL of 0 as "never expires"
getCachedResponse_zeroForever(cache, metrics, key, t) ==
  LET i == IndexOf(cache, key)
      counted == [metrics EXCEPT !.totalRequests = @ + 1]
  IN  IF i # 0 /\ (config.cacheTtl = 0 \/ t - cache[i].timestamp < config.cacheTtl)
        THEN [cache |-> [cache EXCEPT ![i].accessCount = @ + 1],
              metrics |-> [counted EXCEPT !.hits = @ + 1],
              found |-> TRUE,
              response |-> cache[i].response]
        ELSE [cache |-> IF i # 0 THEN RemoveAt(cache, i) ELSE cache,
              metrics |-> [counted EXCEPT !.misses = @ + 1],
              found |-> FALSE,
              response |-> <<>>]

\* getCachedResponse counting a miss only when there is no entry at all
getCachedResponse_expiredUncounted(cache, metrics, key, t) ==
  LET i == IndexOf(cache, key)
      counted == [metrics EXCEPT !.totalRequests = @ + 1]
  IN  IF i # 0 /\ t - cache[i].timestamp < config.cacheTtl
        THEN [cache |-> [cache EXCEPT ![i].accessCount = @ + 1],
              metrics |-> [counted EXCEPT !.hits = @ + 1],
              found |-> TRUE,
              response |-> cache[i].response]
        ELSE [cache |-> IF i # 0 THEN RemoveAt(cache, i) ELSE cache,
              metrics |-> IF i # 0 THEN counted ELSE [counted EXCEPT !.misses = @ + 1],
              found |-> FALSE,
              response |-> <<>>]

\* getCachedResponse stamping the entry it finds with the time of the hit
getCachedResponse_touch(cache, metrics, key, t) ==
  LET i == IndexOf(cache, key)
      counted == [metrics EXCEPT !.totalRequests = @ + 1]
  IN  IF i # 0 /\ t - cache[i].timestamp < config.cacheTtl
        THEN [cache |-> [cache EXCEPT ![i].accessCount = @ + 1, ![i].timestamp = t],
              metrics |-> [counted EXCEPT !.hits = @ + 1],
              found |-> TRUE,
              response |-> cache[i].response]
        ELSE [cache |-> IF i # 0 THEN RemoveAt(cache, i) ELSE cache,
              metrics |-> [counted EXCEPT !.misses = @ + 1],
              found |-> FALSE,
              response |-> <<>>]

getCachedResponse(cache, metrics, key, t) ==
  LET i == IndexOf(cache, key)
      counted == [metrics EXCEPT !.totalRequests = @ + 1]
  IN  IF i # 0 /\ t - cache[i].timestamp < config.cacheTtl
        THEN [cache |-> [cache EXCEPT ![i].accessCount = @ + 1],
              metrics |-> [counted EXCEPT !.hits = @ + 1],
              found |-> TRUE,
              response |-> cache[i].response]
        ELSE [cache |-> IF i # 0 THEN RemoveAt(cache, i) ELSE cache,
              metrics |-> [counted EXCEPT !.misses = @ + 1],
              found |-> FALSE,
              response |-> <<>>]

\* the loop of evictLeastRecentlyUsed comparing timestamps only
RECURSIVE LruScan_timestampOnly(_, _, _, _, _, _)
LruScan_timestampOnly(cache, i, lru, lruTimestamp, lruAccessCount, inf) ==
  IF i > Len(cache) THEN lru
  ELSE IF cache[i].timestamp < lruTimestamp \/ (cache[i].timestamp = lruTimestamp /\ inf)
    THEN LruScan_timestampOnly(cache, i + 1, i, cache[i].timestamp,
                               cache[i].accessCount, FALSE)
    ELSE LruScan_timestampOnly(cache, i + 1, lru, lruTimestamp, lruAccessCount, inf)

\* the loop of evictLeastRecentlyUsed over entries i..Len(cache): lru is the
\* index chosen so far (0 for null), inf says lruAccessCount is still Infinity
RECURSIVE LruScan(_, _, _, _, _, _)
LruScan(cache, i, lru, lruTimestamp, lruAccessCount, inf) ==
  IF i > Len(cache) THEN lru
  ELSE IF \/ cache[i].timestamp < lruTimestamp
          \/ /\ cache[i].timestamp = lruTimestamp
             /\ (inf \/ cache[i].accessCount < lruAccessCount)
    THEN LruScan(cache, i + 1, i, cache[i].timestamp, cache[i].accessCount, FALSE)
    ELSE LruScan(cache, i + 1, lru, lruTimestamp, lruAccessCount, inf)

evictLeastRecentlyUsed(cache, metrics, t) ==
  LET lruKey == LruScan(cache, 1, 0, t, 0, TRUE)
  IN  IF lruKey # 0
        THEN [cache |-> RemoveAt(cache, lruKey),
              metrics |-> [metrics EXCEPT !.evictions = @ + 1]]
        ELSE [cache |-> cache, metrics |-> metrics]

\* setCachedResponse without the capacity check
setCachedResponse_unbounded(cache, metrics, key, response, t) ==
  [cache |-> MapPut(cache, [key |-> key, response |-> response,
                            timestamp |-> t, accessCount |-> 1]),
   metrics |-> metrics,
   removed |-> 0]

setCachedResponse(cache, metrics, key, response, t) ==
  LET room == IF Len(cache) >= config.maxCacheSize
                THEN evictLeastRecentlyUsed(cache, metrics, t)
                ELSE [cache |-> cache, metrics |-> metrics]
  IN  [cache |-> MapPut(room.cache,
                        [key |-> key, response |-> response,
                         timestamp |-> t, accessCount |-> 1]),
       metrics |-> room.metrics,
       removed |-> Len(cache) - Len(room.cache)]

(***************************************************************************)
(* Routing and the provider call                                           *)
(***************************************************************************)
NoResponse == <<"No response received">>

\* What one axios.post can do: answer with a body whose first choice holds
\* `content` (<<>> when the choice list is empty or the content is missing),
\* be refused with a 4xx status (an AxiosError with response.status in
\* 400..499), or fail in any other way (5xx, network error, timeout).
Answered(content) == [kind |-> "ok", content |-> content]

ClientRefusal == [kind |-> "client", content |-> <<>>]

TransientFailure == [kind |-> "transient", content |-> <<>>]

\* three of the ways to fail that are not a 4xx: an AxiosError with no response
\* (network error, timeout) and one with a 5xx status
NetworkError == [kind |-> "network", content |-> <<>>]

Timeout == [kind |-> "timeout", content |-> <<>>]

ServerError == [kind |-> "server", content |-> <<>>]

\* callOpenRouter without the `|| 'No response received'`
callOpenRouter_verbatim(outcome) == outcome.content

\* callOpenRouter, given what the POST did: the text returned; it throws
\* exactly when the POST failed
callOpenRouter(outcome) ==
  IF outcome.content # <<>> THEN outcome.content ELSE NoResponse

\* routeToOptimalProvider with the cost strategy sent to google
routeToOptimalProvider_costToGoogle(strategy, outcome) ==
  IF strategy = "intelligence" THEN "openai"
  ELSE IF strategy \in {"cost", "balance"} THEN "google"
  ELSE IF strategy = "all" THEN "all"
  ELSE IF strategy \in {"deepseek", "google", "openai"} THEN strategy
  ELSE IF strategy = "auto" /\ outcome.kind = "ok"
    THEN LET cleanDecision == trim(toLowerCase(callOpenRouter(outcome)))
         IN  IF \E p \in {"deepseek", "google", "openai"} : Spell(p) = cleanDecision
               THEN CHOOSE p \in {"deepseek", "google", "openai"} :
                      Spell(p) = cleanDecision
               ELSE "google"
  ELSE "google"

\* routeToOptimalProvider handing on a decision it cannot dispatch
routeToOptimalProvider_unchecked(strategy, outcome) ==
  IF strategy = "intelligence" THEN "openai"
  ELSE IF strategy = "cost" THEN "deepseek"
  ELSE IF strategy = "balance" THEN "google"
  ELSE IF strategy = "all" THEN "all"
  ELSE IF strategy \in {"deepseek", "google", "openai"} THEN strategy
  ELSE IF strategy = "auto" /\ outcome.kind = "ok"
    THEN LET cleanDecision == trim(toLowerCase(callOpenRouter(outcome)))
         IN  IF \E p \in {"deepseek", "google", "openai"} : Spell(p) = cleanDecision
               THEN CHOOSE p \in {"deepseek", "google", "openai"} :
                      Spell(p) = cleanDecision
               ELSE "router"
  ELSE "google"

\* routeToOptimalProvider; `outcome` is what the POST to the routing model
\* did and is read for strategy 'auto' only
routeToOptimalProvider(strategy, outcome) ==
  IF strategy = "intelligence" THEN "openai"
  ELSE IF strategy = "cost" THEN "deepseek"
  ELSE IF strategy = "balance" THEN "google"
  ELSE IF strategy = "all" THEN "all"
  ELSE IF strategy \in {"deepseek", "google", "openai"} THEN strategy
  ELSE IF strategy = "auto"
    THEN IF outcome.kind = "ok"
           THEN LET cleanDecision == trim(toLowerCase(callOpenRouter(outcome)))
                IN  IF \E p \in {"deepseek", "google", "openai"} :
                         Spell(p) = cleanDecision
                      THEN CHOOSE p \in {"deepseek", "google", "openai"} :
                             Spell(p) = cleanDecision
                      ELSE "google"
           ELSE "google"
  ELSE "google"

\* formatMultiAdvisorResponse: the header, the note naming the advisors that
\* failed, one section per advisor that answered, and the synthesis footer
RECURSIVE Sections(_)
Sections(results) ==
  IF results = <<>> THEN <<>>
  ELSE LET r == Head(results)
       IN  (IF r.success
              THEN <<"## Advisor", MODEL_NAMES[r.model], r.model>> \o r.response
              ELSE <<>>) \o Sections(Tail(results))

formatMultiAdvisorResponse(results) ==
  LET successfulResults == SelectSeq(results, LAMBDA r : r.success)
      failedResults == SelectSeq(results, LAMBDA r : ~r.success)
  IN  <<"# Multi-Advisor Consultation Results">>
        \o (IF Len(failedResults) > 0
              THEN <<"Note: advisor(s) encountered errors:">>
                     \o [i \in 1..Len(failedResults) |->
                           MODEL_NAMES[failedResults[i].model]]
              ELSE <<>>)
        \o Sections(results)
        \o (IF Len(successfulResults) > 1
              THEN <<"## Synthesis & Next Steps">>
              ELSE <<>>)

\* callOpenRouterWithRetry going round the loop once more than maxRetries
callOpenRouterWithRetry_oneMore(attempt, outcome, t) ==
  IF outcome.kind = "ok"
    THEN [st |-> "ok", response |-> callOpenRouter(outcome), code |-> "none", wake |-> 0]
  ELSE IF outcome.kind = "client"
    THEN [st |-> "fail", response |-> <<>>, code |-> "CLIENT_ERROR", wake |-> 0]
  ELSE IF attempt < config.maxRetries
    THEN [st |-> "delay", response |-> <<>>, code |-> "none", wake |-> t + 2 ^ attempt]
  ELSE [st |-> "fail", response |-> <<>>, code |-> "MAX_RETRIES_EXCEEDED", wake |-> 0]

\* callOpenRouterWithRetry without the test for a 4xx status
callOpenRouterWithRetry_retryAll(attempt, outcome, t) ==
  IF outcome.kind = "ok"
    THEN [st |-> "ok", response |-> callOpenRouter(outcome), code |-> "none", wake |-> 0]
  ELSE IF attempt < config.maxRetries - 1
    THEN [st |-> "delay", response |-> <<>>, code |-> "none", wake |-> t + 2 ^ attempt]
  ELSE [st |-> "fail", response |-> <<>>, code |-> "MAX_RETRIES_EXCEEDED", wake |-> 0]

\* One pass of the loop of callOpenRouterWithRetry, for the attempt with index
\* `attempt` whose POST did `outcome` at time t: return the answer, throw
\* CLIENT_ERROR, wait 2^attempt and go round again, or fall out of the loop
\* and throw MAX_RETRIES_EXCEEDED.
\* callOpenRouterWithRetry waiting attempt + 1 seconds
callOpenRouterWithRetry_linear(attempt, outcome, t) ==
  IF outcome.kind = "ok"
    THEN [st |-> "ok", response |-> callOpenRouter(outcome), code |-> "none", wake |-> 0]
  ELSE IF outcome.kind = "client"
    THEN [st |-> "fail", response |-> <<>>, code |-> "CLIENT_ERROR", wake |-> 0]
  ELSE IF attempt < config.maxRetries - 1
    THEN [st |-> "delay", response |-> <<>>, code |-> "none", wake |-> t + attempt + 1]
  ELSE [st |-> "fail", response |-> <<>>, code |-> "MAX_RETRIES_EXCEEDED", wake |-> 0]

callOpenRouterWithRetry(attempt, outcome, t) ==
  IF outcome.kind = "ok"
    THEN [st |-> "ok", response |-> callOpenRouter(outcome), code |-> "none", wake |-> 0]
  ELSE IF outcome.kind = "client"
    THEN [st |-> "fail", response |-> <<>>, code |-> "CLIENT_ERROR", wake |-> 0]
  ELSE IF attempt < config.maxRetries - 1
    THEN [st |-> "delay", response |-> <<>>, code |-> "none", wake |-> t + 2 ^ attempt]
  ELSE [st |-> "fail", response |-> <<>>, code |-> "MAX_RETRIES_EXCEEDED", wake |-> 0]

(***************************************************************************)
(* State                                                                   *)
(***************************************************************************)
VARIABLES
  now,               \* Date.now(), in ticks
  rateLimitTracker,  \* this.rateLimitTracker
  requestCache,      \* this.requestCache
  cacheMetrics,      \* this.cacheMetrics
  origin,            \* history: for each key in the cache, the call that stored it
  evicted,           \* history: number of entries eviction has deleted
  window,            \* history: per client, the requests seen in its current window
  req,               \* the callTool invocations in progress, one per slot
                     \* (tried: history, what each POST for the answer did)
  last,              \* history: the callTool that returned or threw in this step
  ncalls,            \* history: number of callTool invocations so far
  probe              \* the component operation applied in this step (unit runs),
                     \* or the log of the provider calls so far (calls runs)

vars ==
  <<config, now, rateLimitTracker, requestCache, cacheMetrics, origin, evicted,
    window, req, last, ncalls, probe>>

\* bounds of the exploration, and the configuration it runs under
MaxCalls == 2
MaxTime == 2
MaxRetries == 2
CacheTtl == 1
MaxCacheSize == 1
MaxTaskLength == 16
MaxContextLength == 8
RateLimitRequests == 1
RateLimitWindow == 1

Configured ==
  [maxRetries |-> MaxRetries, cacheTtl |-> CacheTtl, maxCacheSize |-> MaxCacheSize,
   maxTaskLength |-> MaxTaskLength, maxContextLength |-> MaxContextLength,
   rateLimitRequests |-> RateLimitRequests, rateLimitWindow |-> RateLimitWindow]

SlotOrder == <<"r1", "r2">>

Reqs == {SlotOrder[i] : i \in 1..Len(SlotOrder)}

\* what the routing model did, before there is a routing call
NoDecision == [kind |-> "none", content |-> <<>>]

Idle ==
  [pc |-> "idle", slot |-> "", name |-> "", model |-> "", task |-> <<>>, context |-> <<>>,
   sTask |-> <<>>, sCtx |-> <<>>, provider |-> "", attempt |-> 0, wake |-> 0,
   lookups |-> 0, http |-> <<>>, fan |-> <<>>, decision |-> NoDecision,
   lastError |-> "none", tried |-> <<>>]

NoLast ==
  [done |-> FALSE, slot |-> "", name |-> "", model |-> "", task |-> <<>>, context |-> <<>>,
   ok |-> FALSE, code |-> "none", text |-> <<>>, provider |-> "",
   fromCache |-> FALSE, lookups |-> 0, http |-> <<>>, results |-> <<>>,
   decision |-> NoDecision, cause |-> "none", tried |-> <<>>]

NoProbe == [op |-> "none"]

\* what a finished invocation leaves in `last`
Outcome(q, ok, code, text, fromCache, results) ==
  [done |-> TRUE, slot |-> q.slot, name |-> q.name, model |-> q.model, task |-> q.task,
   context |-> q.context, ok |-> ok, code |-> code, text |-> text,
   provider |-> q.provider, fromCache |-> fromCache, lookups |-> q.lookups,
   http |-> q.http, results |-> results, decision |-> q.decision,
   cause |-> q.lastError, tried |-> q.tried]

Threw(q, code, text) == Outcome(q, FALSE, code, text, FALSE, <<>>)

Returned(q, text, fromCache, results) == Outcome(q, TRUE, "none", text, fromCache, results)

Posted(q, to, purpose) ==
  Append(q.http, [to |-> to, purpose |-> purpose, task |-> q.sTask, context |-> q.sCtx])

\* the log of provider calls, kept by the runs that start with one: the start
\* of a dispatch ("call"), a further attempt ("retry"), and what a POST did
\* ("ok", "fail"), each with the key of the model and the time
NoCalls == [op |-> "calls", log |-> <<>>]

Event(ev, to, t) == [ev |-> ev, to |-> to, t |-> t]

Observe(p, events) ==
  IF p.op = "calls" THEN [p EXCEPT !.log = @ \o events] ELSE p

Settled(outcome, to, t) ==
  <<Event(IF outcome.kind = "ok" THEN "ok" ELSE "fail", to, t)>>

\* the log of the inbound calls, kept by the runs that start with one: the
\* tool name each call came in under, the time, and whether checkRateLimit
\* admitted it
NoCallers == [op |-> "callers", log |-> <<>>]

Heard(p, name, t, ok) ==
  IF p.op = "callers"
    THEN [p EXCEPT !.log = Append(@, [name |-> name, t |-> t, ok |-> ok])]
    ELSE p

CacheKeys(cache) == {cache[i].key : i \in 1..Len(cache)}

\* the history of the keys still in the cache, after key was stored by q
Stored(org, cache, key, q) ==
  [k \in CacheKeys(cache) |->
     IF k = key
       THEN [strategy |-> q.model, provider |-> q.provider,
             task |-> q.sTask, context |-> q.sCtx, name |-> q.name]
       ELSE org[k]]

Kept(org, cache) == [k \in CacheKeys(cache) |-> org[k]]

\* the inputs explored
TaskPlain == <<"f", "i", "x">>
TaskSpaced == <<" ", "f", "i", "x", "x00", "\t">>
TaskScript == Word.javascript
TaskLong == [i \in 1..(MaxTaskLength + 1) |-> "a"]
ContextLong == [i \in 1..(MaxContextLength + 1) |-> "c"]

Strategies == ROUTING_STRATEGIES \cup {"random", "claude", "fastest"}

Call(name, model, task, context) ==
  [name |-> name, model |-> model, task |-> task, context |-> context]

\* well-formed calls, one or more per strategy name
GoodCalls ==
  {Call("smart_advisor", m, TaskPlain, <<>>) : m \in Strategies}
    \cup {Call("smart_advisor", "deepseek", TaskSpaced, <<>>),
          Call("smart_advisor", "intelligence", TaskPlain, <<"c">>)}

\* calls with an unknown tool or an input the validator refuses
BadCalls ==
  {Call("no_such_tool", "cost", TaskPlain, <<>>),
   Call("smart_advisor", "cost", TaskScript, <<>>)}
    \cup {Call("smart_advisor", m, TaskLong, <<>>) : m \in {"cost", "auto", "all"}}
    \cup {Call("smart_advisor", m, TaskPlain, ContextLong) : m \in {"cost", "all"}}

Calls == GoodCalls \cup BadCalls

Answer == <<"answer">>
ProviderOutcomes == {Answered(Answer), Answered(<<>>), ClientRefusal, TransientFailure}

RouterOutcomes ==
  {Answered(<<" ", "D", "e", "e", "p", "S", "e", "e", "k", "\n">>),
   Answered(Name.router), ClientRefusal, TransientFailure}

\* what an advisor of a fan-out does in the runs that interleave two calls
FanOutcomes == {Answered(Answer), ClientRefusal}

StartWith(cfg, p) ==
  /\ config = cfg
  /\ now = 0
  /\ rateLimitTracker = <<>>
  /\ requestCache = <<>>
  /\ cacheMetrics = [hits |-> 0, misses |-> 0, evictions |-> 0, totalRequests |-> 0]
  /\ origin = <<>>
  /\ evicted = 0
  /\ window = <<>>
  /\ req = [r \in Reqs |-> Idle]
  /\ last = NoLast
  /\ ncalls = 0
  /\ probe = p

Start(cfg) == StartWith(cfg, NoProbe)

Init == \E n \in 0..MaxCacheSize : Start([Configured EXCEPT !.maxCacheSize = n])

\* the slot a new invocation takes: the first free one
FreeSlot(r) ==
  \E i \in 1..Len(SlotOrder) :
    /\ SlotOrder[i] = r
    /\ req[r].pc = "idle"
    /\ \A j \in 1..(i - 1) : req[SlotOrder[j]].pc # "idle"

(***************************************************************************)
(* callTool, up to its first await                                         *)
(***************************************************************************)
\* callTool with validateInput ahead of checkRateLimit
CallToolWithin_validateFirst(maxCalls, r, name, model, task, context) ==
  /\ FreeSlot(r)
  /\ ncalls < maxCalls
  /\ ncalls' = ncalls + 1
  /\ LET validation == validateInput(task, context)
         limit == IF validation.isValid
                    THEN checkRateLimit(rateLimitTracker, "default", now)
                    ELSE [ok |-> TRUE, tracker |-> rateLimitTracker]
         q == [Idle EXCEPT !.slot = r, !.name = name, !.model = model,
                           !.task = task, !.context = context]
         s == [q EXCEPT !.sTask = sanitizeInput(task),
                        !.sCtx = sanitizeInput(context)]
     IN  /\ rateLimitTracker' = limit.tracker
         /\ window' = IF validation.isValid
                         THEN Observed(window, "default", now, limit.ok)
                         ELSE window
         /\ probe' = Heard(probe, name, now, limit.ok)
         /\ IF ~validation.isValid
              THEN /\ last' = Threw(q, "INVALID_INPUT", <<validation.error>>)
                   /\ req' = req
            ELSE IF ~limit.ok
              THEN /\ last' = Threw(q, "RATE_LIMIT_EXCEEDED", <<"Rate limit exceeded">>)
                   /\ req' = req
            ELSE IF name \notin validTools
              THEN /\ last' = Threw(q, "UNKNOWN_TOOL", <<"Unknown tool">>)
                   /\ req' = req
            ELSE IF model \notin ROUTING_STRATEGIES
              THEN /\ last' = Threw(q, "UNKNOWN_STRATEGY", <<"Unknown routing strategy">>)
                   /\ req' = req
            ELSE IF model = "auto"
              THEN /\ last' = NoLast
                   /\ req' = [req EXCEPT ![r] =
                        [s EXCEPT !.pc = "routing",
                                  !.http = Posted(s, MODELS.router, "routing")]]
            ELSE /\ last' = NoLast
                 /\ req' = [req EXCEPT ![r] =
                      [s EXCEPT !.pc = "routed",
                                !.provider = routeToOptimalProvider(model, TransientFailure)]]
  /\ UNCHANGED <<config, now, requestCache, cacheMetrics, origin, evicted>>

CallToolWithin(maxCalls, r, name, model, task, context) ==
  /\ FreeSlot(r)
  /\ ncalls < maxCalls
  /\ ncalls' = ncalls + 1
  /\ LET limit == checkRateLimit(rateLimitTracker, "default", now)
         validation == validateInput(task, context)
         q == [Idle EXCEPT !.slot = r, !.name = name, !.model = model,
                           !.task = task, !.context = context]
         s == [q EXCEPT !.sTask = sanitizeInput(task),
                        !.sCtx = sanitizeInput(context)]
     IN  /\ rateLimitTracker' = limit.tracker
         /\ window' = Observed(window, "default", now, limit.ok)
         /\ probe' = Heard(probe, name, now, limit.ok)
         /\ IF ~limit.ok
              THEN /\ last' = Threw(q, "RATE_LIMIT_EXCEEDED", <<"Rate limit exceeded">>)
                   /\ req' = req
            ELSE IF name \notin validTools
              THEN /\ last' = Threw(q, "UNKNOWN_TOOL", <<"Unknown tool">>)
                   /\ req' = req
            ELSE IF ~validation.isValid
              THEN /\ last' = Threw(q, "INVALID_INPUT", <<validation.error>>)
                   /\ req' = req
            ELSE IF model \notin ROUTING_STRATEGIES
              THEN /\ last' = Threw(q, "UNKNOWN_STRATEGY", <<"Unknown routing strategy">>)
                   /\ req' = req
            ELSE IF model = "auto"
              THEN /\ last' = NoLast
                   /\ req' = [req EXCEPT ![r] =
                        [s EXCEPT !.pc = "routing",
                                  !.http = Posted(s, MODELS.router, "routing")]]
            ELSE /\ last' = NoLast
                 /\ req' = [req EXCEPT ![r] =
                      [s EXCEPT !.pc = "routed",
                                !.provider = routeToOptimalProvider(model, TransientFailure)]]
  /\ UNCHANGED <<config, now, requestCache, cacheMetrics, origin, evicted>>

CallTool(r, name, model, task, context) ==
  CallToolWithin(MaxCalls, r, name, model, task, context)

\* RouterResponds with the answer of the routing model left unread
RouterResponds_ignoresDecision(r, outcome) ==
  /\ req[r].pc = "routing"
  /\ req' = [req EXCEPT ![r].pc = "routed", ![r].decision = outcome,
                        ![r].provider = "google"]
  /\ last' = NoLast
  /\ UNCHANGED <<config, now, rateLimitTracker, requestCache, cacheMetrics, origin, evicted, window, ncalls, probe>>

\* the routing call made through the retry loop: a transient failure is
\* followed by another POST to the routing model
RouterResponds_retried(r, outcome) ==
  /\ req[r].pc = "routing"
  /\ IF outcome.kind \notin {"ok", "client"} /\ Len(req[r].http) < config.maxRetries
       THEN req' = [req EXCEPT ![r].http = Posted(req[r], MODELS.router, "routing")]
       ELSE req' = [req EXCEPT ![r].pc = "routed", ![r].decision = outcome,
                               ![r].provider = routeToOptimalProvider(req[r].model, outcome)]
  /\ last' = NoLast
  /\ UNCHANGED <<config, now, rateLimitTracker, requestCache, cacheMetrics, origin, evicted, window, ncalls, probe>>

\* the POST to the routing model settles
RouterResponds(r, outcome) ==
  /\ req[r].pc = "routing"
  /\ req' = [req EXCEPT ![r].pc = "routed", ![r].decision = outcome,
                        ![r].provider = routeToOptimalProvider(req[r].model, outcome)]
  /\ last' = NoLast
  /\ UNCHANGED <<config, now, rateLimitTracker, requestCache, cacheMetrics, origin, evicted, window, ncalls, probe>>

\* the four dispatches consultAllAdvisors starts, each up to its first await
\* (tried: history, what each POST of the dispatch did)
FanStart ==
  [i \in 1..Len(modelKeys) |->
     IF 0 < config.maxRetries
       THEN [st |-> "http", attempt |-> 0, wake |-> 0, response |-> <<>>,
             code |-> "none", tried |-> <<>>]
       ELSE [st |-> "fail", attempt |-> 0, wake |-> 0, response |-> <<>>,
             code |-> "MAX_RETRIES_EXCEEDED", tried |-> <<>>]]

\* the POSTs those dispatches make before their first await
FanPosted(q) ==
  q.http \o [i \in 1..Len(modelKeys) |->
              [to |-> MODELS[modelKeys[i]], purpose |-> "answer",
               task |-> q.sTask, context |-> q.sCtx]]

\* callTool after routing: the cache lookup, then the first POST(s)
Dispatch(r) ==
  /\ req[r].pc = "routed"
  /\ LET q == req[r]
         fanout == q.provider = "all"
         key == IF fanout THEN allCacheKey(q.sTask, q.sCtx, q.name)
                ELSE cacheKey(q)
         cached == getCachedResponse(requestCache, cacheMetrics, key, now)
         looked == [q EXCEPT !.lookups = @ + 1]
     IN  IF ~fanout /\ q.provider \notin mainProviders
           THEN /\ last' = Threw(q, "INVALID_PROVIDER", <<"Invalid provider selection">>)
                /\ req' = [req EXCEPT ![r] = Idle]
                /\ UNCHANGED <<requestCache, cacheMetrics, origin, evicted, probe>>
         ELSE /\ requestCache' = cached.cache
              /\ cacheMetrics' = cached.metrics
              /\ origin' = Kept(origin, cached.cache)
              /\ evicted' = evicted
              /\ IF cached.found /\ cached.response # <<>>
                   THEN /\ last' = Returned(looked, cached.response, TRUE, <<>>)
                        /\ req' = [req EXCEPT ![r] = Idle]
                        /\ probe' = probe
                 ELSE IF fanout
                   THEN /\ last' = NoLast
                        /\ probe' = IF 0 < config.maxRetries
                                      THEN Observe(probe, [i \in 1..Len(modelKeys) |->
                                                            Event("call", modelKeys[i], now)])
                                      ELSE probe
                        /\ req' = [req EXCEPT ![r] =
                             [looked EXCEPT !.pc = "fanout", !.fan = FanStart,
                                !.http = IF 0 < config.maxRetries
                                           THEN FanPosted(q) ELSE q.http]]
                 ELSE IF ~(0 < config.maxRetries)
                   THEN /\ last' = Threw(looked, "MAX_RETRIES_EXCEEDED",
                                         <<"MAX_RETRIES_EXCEEDED">>)
                        /\ req' = [req EXCEPT ![r] = Idle]
                        /\ probe' = probe
                 ELSE /\ last' = NoLast
                      /\ probe' = Observe(probe, <<Event("call", q.provider, now)>>)
                      /\ req' = [req EXCEPT ![r] =
                           [looked EXCEPT !.pc = "http", !.attempt = 0,
                              !.http = Posted(q, MODELS[q.provider], "answer")]]
  /\ UNCHANGED <<config, now, rateLimitTracker, window, ncalls>>

\* the POST settles, a failed dispatch storing its error text under the key
ProviderResponds_storesFailure(r, outcome) ==
  /\ req[r].pc = "http"
  /\ LET p == req[r]
         q == [p EXCEPT !.tried = Append(@, outcome),
                        !.lastError = IF outcome.kind = "ok" THEN @ ELSE outcome.kind]
         step == callOpenRouterWithRetry(p.attempt, outcome, now)
         key == cacheKey(q)
         text == IF step.st = "ok" THEN step.response ELSE <<step.code>>
         put == setCachedResponse(requestCache, cacheMetrics, key, text, now)
     IN  IF step.st \in {"ok", "fail"}
           THEN /\ requestCache' = put.cache
                /\ cacheMetrics' = put.metrics
                /\ origin' = Stored(origin, put.cache, key, q)
                /\ evicted' = evicted + put.removed
                /\ last' = IF step.st = "ok" THEN Returned(q, step.response, FALSE, <<>>)
                           ELSE Threw(q, step.code, <<step.code>>)
                /\ req' = [req EXCEPT ![r] = Idle]
         ELSE /\ last' = NoLast
              /\ req' = [req EXCEPT ![r] = [q EXCEPT !.pc = "delay", !.wake = step.wake]]
              /\ UNCHANGED <<requestCache, cacheMetrics, origin, evicted>>
  /\ probe' = Observe(probe, Settled(outcome, req[r].provider, now))
  /\ UNCHANGED <<config, now, rateLimitTracker, window, ncalls>>

\* single provider: the POST of the current attempt settles
ProviderResponds(r, outcome) ==
  /\ req[r].pc = "http"
  /\ LET p == req[r]
         q == [p EXCEPT !.tried = Append(@, outcome),
                        !.lastError = IF outcome.kind = "ok" THEN @ ELSE outcome.kind]
         step == callOpenRouterWithRetry(p.attempt, outcome, now)
         key == cacheKey(q)
         put == setCachedResponse(requestCache, cacheMetrics, key, step.response, now)
     IN  IF step.st = "ok"
           THEN /\ requestCache' = put.cache
                /\ cacheMetrics' = put.metrics
                /\ origin' = Stored(origin, put.cache, key, q)
                /\ evicted' = evicted + put.removed
                /\ last' = Returned(q, step.response, FALSE, <<>>)
                /\ req' = [req EXCEPT ![r] = Idle]
         ELSE IF step.st = "fail"
           THEN /\ last' = Threw(q, step.code, <<step.code>>)
                /\ req' = [req EXCEPT ![r] = Idle]
                /\ UNCHANGED <<requestCache, cacheMetrics, origin, evicted>>
         ELSE /\ last' = NoLast
              /\ req' = [req EXCEPT ![r] = [q EXCEPT !.pc = "delay", !.wake = step.wake]]
              /\ UNCHANGED <<requestCache, cacheMetrics, origin, evicted>>
  /\ probe' = Observe(probe, Settled(outcome, req[r].provider, now))
  /\ UNCHANGED <<config, now, rateLimitTracker, window, ncalls>>

\* the backoff timer fires and the promise of delay is never resolved
DelayElapses_unresolved(r) ==
  /\ req[r].pc = "delay"
  /\ now >= req[r].wake
  /\ req' = [req EXCEPT ![r].pc = "unresolved"]
  /\ last' = NoLast
  /\ probe' = probe
  /\ UNCHANGED <<config, now, rateLimitTracker, requestCache, cacheMetrics, origin, evicted, window, ncalls>>

\* single provider: the backoff timer fires and the next attempt is posted
DelayElapses(r) ==
  /\ req[r].pc = "delay"
  /\ now >= req[r].wake
  /\ req' = [req EXCEPT ![r].pc = "http", ![r].attempt = @ + 1,
                        ![r].http = Posted(req[r], MODELS[req[r].provider], "answer")]
  /\ last' = NoLast
  /\ probe' = Observe(probe, <<Event("retry", req[r].provider, now)>>)
  /\ UNCHANGED <<config, now, rateLimitTracker, requestCache, cacheMetrics, origin, evicted, window, ncalls>>

\* fan-out: the POST of advisor i settles
FanResponds(r, i, outcome) ==
  /\ req[r].pc = "fanout"
  /\ req[r].fan[i].st = "http"
  /\ LET step == callOpenRouterWithRetry(req[r].fan[i].attempt, outcome, now)
     IN  req' = [req EXCEPT ![r].fan[i] =
                   [st |-> step.st, attempt |-> @.attempt, wake |-> step.wake,
                    response |-> step.response, code |-> step.code,
                    tried |-> Append(@.tried, outcome)]]
  /\ last' = NoLast
  /\ probe' = Observe(probe, Settled(outcome, modelKeys[i], now))
  /\ UNCHANGED <<config, now, rateLimitTracker, requestCache, cacheMetrics, origin, evicted, window, ncalls>>

\* fan-out: the backoff timer of advisor i fires
FanDelayElapses(r, i) ==
  /\ req[r].pc = "fanout"
  /\ req[r].fan[i].st = "delay"
  /\ now >= req[r].fan[i].wake
  /\ req' = [req EXCEPT ![r].fan[i].st = "http", ![r].fan[i].attempt = @ + 1,
                        ![r].fan[i].wake = 0,
                        ![r].http = Posted(req[r], MODELS[modelKeys[i]], "answer")]
  /\ last' = NoLast
  /\ probe' = Observe(probe, <<Event("retry", modelKeys[i], now)>>)
  /\ UNCHANGED <<config, now, rateLimitTracker, requestCache, cacheMetrics, origin, evicted, window, ncalls>>

\* FanSettle with Promise.all in the place of Promise.allSettled: the first
\* failure ends the wait, and the advisors still out are reported as failed
FanSettle_failFast(r) ==
  /\ req[r].pc = "fanout"
  /\ \/ \A i \in 1..Len(modelKeys) : req[r].fan[i].st \in {"ok", "fail"}
     \/ \E i \in 1..Len(modelKeys) : req[r].fan[i].st = "fail"
  /\ LET q == req[r]
         results == [i \in 1..Len(modelKeys) |->
                       [model |-> modelKeys[i], success |-> q.fan[i].st = "ok",
                        response |-> q.fan[i].response, error |-> q.fan[i].code,
                        attempts |-> q.fan[i].attempt + 1]]
         formattedResponse == formatMultiAdvisorResponse(results)
         key == allCacheKey(q.sTask, q.sCtx, q.name)
         put == setCachedResponse(requestCache, cacheMetrics, key,
                                  formattedResponse, now)
     IN  /\ requestCache' = put.cache
         /\ cacheMetrics' = put.metrics
         /\ origin' = Stored(origin, put.cache, key, q)
         /\ evicted' = evicted + put.removed
         /\ last' = Returned(q, formattedResponse, FALSE, results)
         /\ req' = [req EXCEPT ![r] = Idle]
  /\ UNCHANGED <<config, now, rateLimitTracker, window, ncalls, probe>>

\* fan-out: Promise.allSettled resolves; format, store, return
FanSettle(r) ==
  /\ req[r].pc = "fanout"
  /\ \A i \in 1..Len(modelKeys) : req[r].fan[i].st \in {"ok", "fail"}
  /\ LET q == req[r]
         results == [i \in 1..Len(modelKeys) |->
                       [model |-> modelKeys[i], success |-> q.fan[i].st = "ok",
                        response |-> q.fan[i].response, error |-> q.fan[i].code,
                        attempts |-> q.fan[i].attempt + 1]]
         formattedResponse == formatMultiAdvisorResponse(results)
         key == allCacheKey(q.sTask, q.sCtx, q.name)
         put == setCachedResponse(requestCache, cacheMetrics, key,
                                  formattedResponse, now)
     IN  /\ requestCache' = put.cache
         /\ cacheMetrics' = put.metrics
         /\ origin' = Stored(origin, put.cache, key, q)
         /\ evicted' = evicted + put.removed
         /\ last' = Returned(q, formattedResponse, FALSE, results)
         /\ req' = [req EXCEPT ![r] = Idle]
  /\ UNCHANGED <<config, now, rateLimitTracker, window, ncalls, probe>>

\* the clock advances
TickTo(horizon) ==
  /\ now < horizon
  /\ now' = now + 1
  /\ last' = NoLast
  /\ probe' = IF probe.op \in {"calls", "callers"} THEN probe ELSE NoProbe
  /\ UNCHANGED <<config, rateLimitTracker, requestCache, cacheMetrics, origin, evicted, window, req, ncalls>>

Tick == TickTo(MaxTime)

Next ==
  \/ \E r \in Reqs, c \in Calls : CallTool(r, c.name, c.model, c.task, c.context)
  \/ \E r \in Reqs, outcome \in RouterOutcomes : RouterResponds(r, outcome)
  \/ \E r \in Reqs : Dispatch(r)
  \/ \E r \in Reqs, outcome \in ProviderOutcomes : ProviderResponds(r, outcome)
  \/ \E r \in Reqs : DelayElapses(r)
  \/ \E r \in Reqs, i \in 1..Len(modelKeys), outcome \in FanOutcomes :
       FanResponds(r, i, outcome)
  \/ \E r \in Reqs : FanSettle(r)
  \/ Tick

Spec == Init /\ [][Next]_vars

(***************************************************************************)
(* The components on their own: the validator, the rate limiter and the    *)
(* cache are driven directly, with the arguments and the result of the     *)
(* operation of each step kept in `probe`.                                 *)
(***************************************************************************)
UnitMaxOps == 4
UnitMaxTime == 2
UnitRateRequests == 2
UnitRateWindow == 2
UnitCacheSize == 2
UnitCacheTtl == 2
MaxFrags == 3

UnitTick == TickTo(UnitMaxTime)

\* the validator: texts put together from pieces of the signatures
Fragments ==
  {<<"I", "g", "n", "o", "r", "e", " ">>, <<"a", "l", "l", " ">>,
   <<"r", "u", "l", "e", "s">>, <<"<", "s", "c", "r", "i", "p", "t", ">">>,
   <<"j", "a", "v", "a">>, <<"s", "c", "r", "i", "p", "t", ":">>, <<"x00">>}

RECURSIVE Phrases(_)
Phrases(n) ==
  IF n = 0 THEN {<<>>}
  ELSE Phrases(n - 1) \cup {p \o f : p \in Phrases(n - 1), f \in Fragments}

Tasks == Phrases(MaxFrags)

Contexts ==
  {<<>>, <<"r", "u", "l", "e", "s">>, <<"o", "n", "x", "\t", "=">>, ContextLong}

Validate(task, context) ==
  /\ ncalls = 0
  /\ ncalls' = 1
  /\ probe' = [op |-> "validateInput", task |-> task, context |-> context,
               result |-> validateInput(task, context)]
  /\ last' = NoLast
  /\ UNCHANGED <<config, now, rateLimitTracker, requestCache, cacheMetrics,
                 origin, evicted, window, req>>

InitValidate == Start(Configured)

NextValidate == \E task \in Tasks, context \in Contexts : Validate(task, context)

SpecValidate == InitValidate /\ [][NextValidate]_vars

\* the rate limiter
Clients == {"default", "other"}

RateCheck(clientId) ==
  /\ ncalls < UnitMaxOps
  /\ ncalls' = ncalls + 1
  /\ LET limit == checkRateLimit(rateLimitTracker, clientId, now)
     IN  /\ rateLimitTracker' = limit.tracker
         /\ window' = Observed(window, clientId, now, limit.ok)
         /\ probe' = [op |-> "checkRateLimit", clientId |-> clientId,
                      ok |-> limit.ok, tracker |-> rateLimitTracker]
  /\ last' = NoLast
  /\ UNCHANGED <<config, now, requestCache, cacheMetrics, origin, evicted, req>>

InitRate ==
  \E n \in 0..UnitRateRequests, w \in 1..UnitRateWindow :
    Start([Configured EXCEPT !.rateLimitRequests = n, !.rateLimitWindow = w])

NextRate ==
  \/ \E clientId \in Clients : RateCheck(clientId)
  \/ UnitTick

SpecRate == InitRate /\ [][NextRate]_vars

\* the cache
Keys == {<<"k1">>, <<"k2">>, <<"k3">>}

Values == {<<"v1">>, <<"v2">>}

CacheGet(key) ==
  /\ ncalls < UnitMaxOps
  /\ ncalls' = ncalls + 1
  /\ LET cached == getCachedResponse(requestCache, cacheMetrics, key, now)
     IN  /\ requestCache' = cached.cache
         /\ cacheMetrics' = cached.metrics
         /\ probe' = [op |-> "get", key |-> key, found |-> cached.found,
                      response |-> cached.response,
                      cache |-> requestCache, metrics |-> cacheMetrics]
  /\ last' = NoLast
  /\ UNCHANGED <<config, now, rateLimitTracker, origin, evicted, window, req>>

CachePut(key, response) ==
  /\ ncalls < UnitMaxOps
  /\ ncalls' = ncalls + 1
  /\ LET put == setCachedResponse(requestCache, cacheMetrics, key, response, now)
     IN  /\ requestCache' = put.cache
         /\ cacheMetrics' = put.metrics
         /\ evicted' = evicted + put.removed
         /\ probe' = [op |-> "put", key |-> key, found |-> FALSE,
                      response |-> response,
                      cache |-> requestCache, metrics |-> cacheMetrics]
  /\ last' = NoLast
  /\ UNCHANGED <<config, now, rateLimitTracker, origin, window, req>>

InitCache ==
  \E n \in 0..UnitCacheSize, ttl \in 0..UnitCacheTtl :
    Start([Configured EXCEPT !.maxCacheSize = n, !.cacheTtl = ttl])

NextCache ==
  \/ \E key \in Keys : CacheGet(key)
  \/ \E key \in Keys, response \in Values : CachePut(key, response)
  \/ UnitTick

SpecCache == InitCache /\ [][NextCache]_vars

(***************************************************************************)
(* The retry loop on its own: requests for one provider under every         *)
(* maxRetries from 0 up, each POST failing in any of the ways it can.       *)
(***************************************************************************)
UnitMaxRetries == 4
UnitRetryTime == 3
UnitRetryCalls == 1

RetryCalls ==
  {Call("smart_advisor", m, TaskPlain, <<>>) : m \in {"cost", "google"}}

RetryOutcomes ==
  {Answered(Answer), Answered(<<>>), ClientRefusal, NetworkError, Timeout, ServerError}

InitRetry == \E n \in 0..UnitMaxRetries : Start([Configured EXCEPT !.maxRetries = n])

NextRetry ==
  \/ \E r \in Reqs, c \in RetryCalls :
       CallToolWithin(UnitRetryCalls, r, c.name, c.model, c.task, c.context)
  \/ \E r \in Reqs : Dispatch(r)
  \/ \E r \in Reqs, outcome \in RetryOutcomes : ProviderResponds(r, outcome)
  \/ \E r \in Reqs : DelayElapses(r)
  \/ TickTo(UnitRetryTime)

SpecRetry == InitRetry /\ [][NextRetry]_vars

(***************************************************************************)
(* One fan-out on its own, its four dispatches retrying: the rate limit     *)
(* window outlasts the run, so that a second request is refused.            *)
(***************************************************************************)
UnitFanTime == 2

FanCalls ==
  {Call("smart_advisor", "all", TaskPlain, <<>>),
   Call("code_review", "all", TaskPlain, <<"c">>)}

FanRetryOutcomes == {Answered(Answer), ClientRefusal, TransientFailure}

InitFan ==
  \E n \in 1..MaxRetries :
    Start([Configured EXCEPT !.maxRetries = n, !.rateLimitWindow = UnitFanTime])

NextFan ==
  \/ \E r \in Reqs, c \in FanCalls : CallTool(r, c.name, c.model, c.task, c.context)
  \/ \E r \in Reqs : Dispatch(r)
  \/ \E r \in Reqs, i \in 1..Len(modelKeys), outcome \in FanRetryOutcomes :
       FanResponds(r, i, outcome)
  \/ \E r \in Reqs, i \in 1..Len(modelKeys) : FanDelayElapses(r, i)
  \/ \E r \in Reqs : FanSettle(r)
  \/ TickTo(UnitFanTime)

SpecFan == InitFan /\ [][NextFan]_vars

(***************************************************************************)
(* Requests for one provider one after the other and side by side, with    *)
(* the log of the provider calls kept: no cached answers (TTL 0) and a rate *)
(* limit that admits every request of the run.                              *)
(***************************************************************************)
UnitCallsMax == 3
UnitCallsTime == 3

LoggedCalls ==
  {Call("smart_advisor", m, TaskPlain, <<>>) : m \in {"deepseek", "cost"}}

LoggedOutcomes == {Answered(Answer), TransientFailure}

InitCalls ==
  \E n \in 1..MaxRetries :
    StartWith([Configured EXCEPT !.maxRetries = n, !.cacheTtl = 0,
                                 !.rateLimitRequests = UnitCallsMax],
              NoCalls)

NextCalls ==
  \/ \E r \in Reqs, c \in LoggedCalls :
       CallToolWithin(UnitCallsMax, r, c.name, c.model, c.task, c.context)
  \/ \E r \in Reqs : Dispatch(r)
  \/ \E r \in Reqs, outcome \in LoggedOutcomes : ProviderResponds(r, outcome)
  \/ \E r \in Reqs : DelayElapses(r)
  \/ TickTo(UnitCallsTime)

SpecCalls == InitCalls /\ [][NextCalls]_vars

(***************************************************************************)
(* The two cache keys of callTool on their own: answers are stored and      *)
(* looked up under the key of a single provider or of the fan-out, for      *)
(* tasks and contexts that hold the separator and the words of the keys.    *)
(***************************************************************************)
UnitKeyOps == 2

KeyTasks == {Name.all, TaskPlain, TaskPlain \o <<":">>}

KeyContexts == {<<>>, <<":">>, TaskPlain \o <<":", ":">> \o Name.smart_advisor}

KeyTools == {"smart_advisor", "code_review"}

\* the request with the resolved provider, or "all", that uses a key
Keyed(provider, task, context, toolName) ==
  [Idle EXCEPT !.name = toolName, !.model = provider, !.provider = provider,
               !.sTask = task, !.sCtx = context]

KeyOf(q) ==
  IF q.provider = "all" THEN allCacheKey(q.sTask, q.sCtx, q.name) ELSE cacheKey(q)

\* setCachedResponse under the key of q
KeyPut(q) ==
  /\ ncalls < UnitKeyOps
  /\ ncalls' = ncalls + 1
  /\ LET put == setCachedResponse(requestCache, cacheMetrics, KeyOf(q), Answer, now)
     IN  /\ requestCache' = put.cache
         /\ cacheMetrics' = put.metrics
         /\ evicted' = evicted + put.removed
         /\ origin' = Stored(origin, put.cache, KeyOf(q), q)
         /\ probe' = [op |-> "store", provider |-> q.provider, key |-> KeyOf(q),
                      found |-> FALSE, from |-> "none", task |-> q.sTask,
                      context |-> q.sCtx]
  /\ last' = NoLast
  /\ UNCHANGED <<config, now, rateLimitTracker, window, req>>

\* getCachedResponse under the key of q
KeyGet(q) ==
  /\ ncalls < UnitKeyOps
  /\ ncalls' = ncalls + 1
  /\ LET cached == getCachedResponse(requestCache, cacheMetrics, KeyOf(q), now)
     IN  /\ requestCache' = cached.cache
         /\ cacheMetrics' = cached.metrics
         /\ origin' = Kept(origin, cached.cache)
         /\ probe' = [op |-> "lookup", provider |-> q.provider, key |-> KeyOf(q),
                      found |-> cached.found,
                      from |-> IF cached.found THEN origin[KeyOf(q)].provider
                               ELSE "none", task |-> q.sTask, context |-> q.sCtx]
  /\ last' = NoLast
  /\ UNCHANGED <<config, now, rateLimitTracker, evicted, window, req>>

KeyedRequests ==
  {Keyed(p, t, c, "smart_advisor") : p \in mainProviders, t \in KeyTasks, c \in KeyContexts}
    \cup {Keyed("all", t, c, n) : t \in KeyTasks, c \in KeyContexts, n \in KeyTools}

InitKeys == \E n \in 1..UnitCacheSize : Start([Configured EXCEPT !.maxCacheSize = n])

NextKeys ==
  \/ \E q \in KeyedRequests : KeyPut(q)
  \/ \E q \in KeyedRequests : KeyGet(q)

SpecKeys == InitKeys /\ [][NextKeys]_vars

(***************************************************************************)
(* Requests coming in under two tool names, with the log of the inbound    *)
(* calls kept.                                                              *)
(***************************************************************************)
UnitCallersMax == 3
UnitCallersTime == 3

CallerCalls ==
  {Call(n, "cost", TaskPlain, <<>>) : n \in {"smart_advisor", "code_review"}}

CallerOutcomes == {Answered(Answer), ClientRefusal}

InitCallers ==
  \E n \in 1..(RateLimitRequests + 1) :
    StartWith([Configured EXCEPT !.rateLimitRequests = n], NoCallers)

NextCallers ==
  \/ \E r \in Reqs, c \in CallerCalls :
       CallToolWithin(UnitCallersMax, r, c.name, c.model, c.task, c.context)
  \/ \E r \in Reqs : Dispatch(r)
  \/ \E r \in Reqs, outcome \in CallerOutcomes : ProviderResponds(r, outcome)
  \/ TickTo(UnitCallersTime)

SpecCallers == InitCallers /\ [][NextCallers]_vars

(***************************************************************************)
(* One request of any kind run to its end: time passes while the request   *)
(* waits for a backoff, every POST settles and every timer fires.          *)
(***************************************************************************)
LiveCalls ==
  RetryCalls \cup {Call("smart_advisor", m, TaskPlain, <<>>) : m \in {"auto", "all"}}

\* the clock advances towards the end of the backoff of request r
Wait(r) ==
  /\ req[r].pc = "delay"
  /\ TickTo(req[r].wake)

NextLive ==
  \/ \E r \in Reqs, c \in LiveCalls :
       CallToolWithin(UnitRetryCalls, r, c.name, c.model, c.task, c.context)
  \/ \E r \in Reqs, outcome \in RouterOutcomes : RouterResponds(r, outcome)
  \/ \E r \in Reqs : Dispatch(r)
  \/ \E r \in Reqs, outcome \in RetryOutcomes : ProviderResponds(r, outcome)
  \/ \E r \in Reqs : DelayElapses(r)
  \/ \E r \in Reqs, i \in 1..Len(modelKeys), outcome \in FanOutcomes :
       FanResponds(r, i, outcome)
  \/ \E r \in Reqs : FanSettle(r)
  \/ \E r \in Reqs : Wait(r)

\* every awaited promise settles: the POSTs (axios settles each one, with its
\* timeout at the latest), the timers of delay, and the continuations that
\* are ready to run
Settles ==
  \A r \in Reqs :
    /\ WF_vars(\E outcome \in RouterOutcomes : RouterResponds(r, outcome))
    /\ WF_vars(Dispatch(r))
    /\ WF_vars(\E outcome \in RetryOutcomes : ProviderResponds(r, outcome))
    /\ WF_vars(DelayElapses(r))
    /\ WF_vars(\E i \in 1..Len(modelKeys), outcome \in FanOutcomes :
                 FanResponds(r, i, outcome))
    /\ WF_vars(FanSettle(r))
    /\ WF_vars(Wait(r))

SpecLive == InitRetry /\ [][NextLive]_vars /\ Settles

(***************************************************************************)
(* Properties                                                              *)
(***************************************************************************)
Min(a, b) == IF a <= b THEN a ELSE b

Oversize(task, context) ==
  Len(task) > config.maxTaskLength \/ Len(context) > config.maxContextLength

\* the POSTs of a request that ask a provider for the answer
AnswerPosts(http) == {i \in 1..Len(http) : http[i].purpose = "answer"}

RoutingPosts(http) == {i \in 1..Len(http) : http[i].purpose = "routing"}

\* C1, as stated: every request whose task or context is over its limit fails
\* with INVALID_INPUT, having made no cache lookup and no HTTP call.
C1_AsStated ==
  (last.done /\ Oversize(last.task, last.context))
    => (~last.ok /\ last.code = "INVALID_INPUT" /\ last.lookups = 0 /\ last.http = <<>>)

\* C1, amended: a request whose task or context is over its limit fails in the
\* step that receives it, with no cache lookup, no HTTP call and the cache and
\* its counters unchanged; it fails with INVALID_INPUT exactly when the rate
\* limiter admits it and its tool name is known, and otherwise with
\* RATE_LIMIT_EXCEEDED (refused by the limiter) or UNKNOWN_TOOL.
C1_OversizeRejected ==
  [][/\ \A r \in Reqs : ~Oversize(req'[r].task, req'[r].context)
     /\ (last'.done /\ Oversize(last'.task, last'.context)) =>
          /\ ~last'.ok
          /\ last'.lookups = 0
          /\ last'.http = <<>>
          /\ requestCache' = requestCache
          /\ cacheMetrics' = cacheMetrics
          /\ last'.code \in {"RATE_LIMIT_EXCEEDED", "UNKNOWN_TOOL", "INVALID_INPUT"}
          /\ (last'.code = "RATE_LIMIT_EXCEEDED") <=> (rateLimitTracker' = rateLimitTracker)
          /\ (last'.code = "INVALID_INPUT") <=>
               (rateLimitTracker' # rateLimitTracker /\ last'.name \in validTools)]_vars

\* an over-long request is refused by the validator while the cache holds an entry
C1_Witness ==
  /\ last.done
  /\ Oversize(last.task, last.context)
  /\ last.code = "INVALID_INPUT"
  /\ Len(requestCache) > 0

\* the text validateInput matches its patterns against
Joined(task, context) == task \o <<" ">> \o context

\* C2, as stated: of the inputs within the length limits, each one matching a
\* script signature is rejected with the malicious-script reason, each one
\* matching a prompt-override signature is rejected with the prompt-injection
\* reason, and each one matching no signature is accepted.
C2_AsStated ==
  (probe.op = "validateInput" /\ ~Oversize(probe.task, probe.context)) =>
    LET text == Joined(probe.task, probe.context)
    IN  /\ scriptInjectionPatterns(text) =>
             (~probe.result.isValid /\ probe.result.error = ErrScript)
        /\ promptInjectionPatterns(text) =>
             (~probe.result.isValid /\ probe.result.error = ErrPrompt)
        /\ (~scriptInjectionPatterns(text) /\ ~promptInjectionPatterns(text)) =>
             probe.result.isValid

\* C2, amended: of the inputs within the length limits, with the signatures
\* matched against task, one space, context: each one matching a script
\* signature is rejected with the malicious-script reason, whether or not it
\* also matches a prompt-override signature; each one matching a
\* prompt-override signature and no script signature is rejected with the
\* prompt-injection reason; each one matching no signature is accepted.
C2_Classified ==
  (probe.op = "validateInput" /\ ~Oversize(probe.task, probe.context)) =>
    LET text == Joined(probe.task, probe.context)
    IN  /\ scriptInjectionPatterns(text) =>
             (~probe.result.isValid /\ probe.result.error = ErrScript)
        /\ (promptInjectionPatterns(text) /\ ~scriptInjectionPatterns(text)) =>
             (~probe.result.isValid /\ probe.result.error = ErrPrompt)
        /\ (~scriptInjectionPatterns(text) /\ ~promptInjectionPatterns(text)) =>
             probe.result.isValid

\* an input within the limits that matches a signature of each kind
C2_Witness ==
  /\ probe.op = "validateInput"
  /\ ~Oversize(probe.task, probe.context)
  /\ scriptInjectionPatterns(Joined(probe.task, probe.context))
  /\ promptInjectionPatterns(Joined(probe.task, probe.context))
  /\ probe.result.error = ErrScript

\* what C3 says of the requests of each client in its current window
RateWindowRule ==
  /\ \A c \in DOMAIN window :
       window[c].admitted = Min(window[c].asked, config.rateLimitRequests)
  /\ probe.op = "checkRateLimit" =>
       LET w == window[probe.clientId]
       IN  /\ probe.ok <=> (w.asked <= config.rateLimitRequests)
           /\ (w.asked = 1) =>
                /\ probe.ok
                /\ rateLimitTracker[probe.clientId].count = 1
                /\ rateLimitTracker[probe.clientId].windowStart = now

\* C3, as stated: for each client and every configured limit, exactly `limit`
\* requests are admitted in one window, the next one in the window is denied,
\* and a request after the window has elapsed is admitted with the count at 1.
C3_AsStated == RateWindowRule

\* C3, amended: for each client and every configured limit of 1 or more,
\* exactly `limit` requests are admitted in one window, every further request
\* in the window is denied, and a request made more than the window length
\* after the window began is admitted with the count reset to 1.
C3_FromOne == (config.rateLimitRequests >= 1) => RateWindowRule

\* with a limit of 2 or more: the limit was used up, a request was denied, the
\* window ran out, and the client's next request has just been admitted
C3_Witness ==
  /\ config.rateLimitRequests >= 2
  /\ probe.op = "checkRateLimit"
  /\ probe.ok
  /\ probe.clientId \in DOMAIN probe.tracker
  /\ probe.tracker[probe.clientId].count = config.rateLimitRequests
  /\ DOMAIN window = {probe.clientId}
  /\ ncalls >= config.rateLimitRequests + 2
  /\ window[probe.clientId].asked = 1

\* the limiter's window for callTool's client is current and used up
Denied ==
  /\ "default" \in DOMAIN rateLimitTracker
  /\ now - rateLimitTracker["default"].windowStart <= config.rateLimitWindow
  /\ rateLimitTracker["default"].count >= config.rateLimitRequests

\* C4: a request the rate limiter denies fails with RATE_LIMIT_EXCEEDED, which
\* is not INVALID_INPUT, in the step that receives it: no cache lookup, no
\* strategy resolution, no HTTP call, the cache and its counters unchanged; and
\* no other request fails with that kind.
C4_DeniedAborts ==
  [][/\ (ncalls' # ncalls /\ Denied) =>
          /\ last'.done
          /\ ~last'.ok
          /\ last'.code = "RATE_LIMIT_EXCEEDED"
          /\ last'.code # "INVALID_INPUT"
          /\ last'.lookups = 0
          /\ last'.provider = ""
          /\ last'.http = <<>>
          /\ req' = req
          /\ requestCache' = requestCache
          /\ cacheMetrics' = cacheMetrics
     /\ (last'.done /\ last'.code = "RATE_LIMIT_EXCEEDED") =>
          (ncalls' # ncalls /\ Denied)]_vars

\* a well-formed request is denied while the cache holds an entry
C4_Witness ==
  /\ last.done
  /\ last.code = "RATE_LIMIT_EXCEEDED"
  /\ last.name \in validTools
  /\ last.model \in ROUTING_STRATEGIES
  /\ validateInput(last.task, last.context).isValid
  /\ Len(requestCache) > 0

\* the places of key in a cache
Held(cache, key) == {i \in 1..Len(cache) : cache[i].key = key}

\* C5: after put(k, v) the cache holds v under k, stamped with the time of the
\* put; get(k) on an entry with now - timestamp < ttl returns its value and
\* counts one hit; get(k) on an entry with now - timestamp >= ttl, or on no
\* entry, returns nothing, counts one miss and leaves no entry for k.
C5_RoundTrip ==
  /\ probe.op = "put" =>
       \E i \in Held(requestCache, probe.key) :
         /\ requestCache[i].response = probe.response
         /\ requestCache[i].timestamp = now
  /\ probe.op = "get" =>
       LET live == {i \in Held(probe.cache, probe.key) :
                      now - probe.cache[i].timestamp < config.cacheTtl}
       IN  /\ cacheMetrics.totalRequests = probe.metrics.totalRequests + 1
           /\ IF live # {}
                THEN /\ probe.found
                     /\ \A i \in live : probe.response = probe.cache[i].response
                     /\ cacheMetrics.hits = probe.metrics.hits + 1
                     /\ cacheMetrics.misses = probe.metrics.misses
                ELSE /\ ~probe.found
                     /\ cacheMetrics.hits = probe.metrics.hits
                     /\ cacheMetrics.misses = probe.metrics.misses + 1
                     /\ Held(requestCache, probe.key) = {}

\* an entry that has been returned before is asked for once its TTL has run
\* out: it is still in the cache, it is not returned, and it is removed
C5_Witness ==
  /\ probe.op = "get"
  /\ ~probe.found
  /\ \E i \in Held(probe.cache, probe.key) :
       /\ probe.cache[i].accessCount >= 2
       /\ now - probe.cache[i].timestamp = config.cacheTtl
  /\ Len(requestCache) = Len(probe.cache) - 1

\* C6, as stated: in every reachable state the cache holds at most N entries
\* (N the configured capacity) and the eviction counter equals the number of
\* entries capacity eviction has removed.
C6_AsStated ==
  /\ Len(requestCache) <= config.maxCacheSize
  /\ cacheMetrics.evictions = evicted

\* C6, amended: in every reachable state the cache holds at most N entries when
\* N is 1 or more, and at most one entry when N is 0; the eviction counter
\* equals the number of entries capacity eviction has removed.
C6_Bounded ==
  /\ Len(requestCache) <= (IF config.maxCacheSize >= 1 THEN config.maxCacheSize ELSE 1)
  /\ cacheMetrics.evictions = evicted

\* with capacity 1: a fan-out that began while another request was in flight
\* has settled and stored its result in a full cache; both requests missed
C6_Witness ==
  /\ config.maxCacheSize = 1
  /\ last.done
  /\ last.slot = "r2"
  /\ last.results # <<>>
  /\ cacheMetrics.misses = 2
  /\ cacheMetrics.hits = 0
  /\ evicted = 1
  /\ Len(requestCache) = 1

\* e leaves the cache no later than f: lower timestamp, then lower access count
Before(e, f) ==
  \/ e.timestamp < f.timestamp
  \/ (e.timestamp = f.timestamp /\ e.accessCount <= f.accessCount)

\* what C7 says of a put of a new key into a cache holding N entries, and of
\* the eviction counter
EvictionRule ==
  /\ cacheMetrics.evictions = evicted
  /\ probe.op = "put" =>
       /\ cacheMetrics.evictions - probe.metrics.evictions \in {0, 1}
       /\ (Held(probe.cache, probe.key) = {} /\ Len(probe.cache) = config.maxCacheSize) =>
            /\ Len(requestCache) = config.maxCacheSize
            /\ cacheMetrics.evictions = probe.metrics.evictions + 1
            /\ \E i \in 1..Len(probe.cache) :
                 /\ \A j \in 1..Len(probe.cache) : Before(probe.cache[i], probe.cache[j])
                 /\ CacheKeys(requestCache) =
                      (CacheKeys(probe.cache) \ {probe.cache[i].key}) \cup {probe.key}

\* C7, as stated: putting a new key into a cache that holds N entries leaves N
\* entries; the key that went is the one with the lowest timestamp and, among
\* those, the lowest access count; an eviction removes one entry and adds one
\* to the eviction counter.
C7_AsStated == EvictionRule

\* C7, amended: for a capacity N of 1 or more, putting a new key into a cache
\* that holds N entries leaves N entries; the key that went is one with the
\* lowest timestamp and, among those, the lowest access count; an eviction
\* removes one entry and adds one to the eviction counter.
C7_FromOne == (config.maxCacheSize >= 1) => EvictionRule

\* capacity 2, both entries stamped alike, the second one read less often: a
\* third key is put and the second entry is the one that went
C7_Witness ==
  /\ config.maxCacheSize = 2
  /\ probe.op = "put"
  /\ Len(probe.cache) = 2
  /\ Held(probe.cache, probe.key) = {}
  /\ probe.cache[1].timestamp = probe.cache[2].timestamp
  /\ probe.cache[2].accessCount < probe.cache[1].accessCount
  /\ probe.cache[2].key \notin CacheKeys(requestCache)
  /\ probe.cache[1].key \in CacheKeys(requestCache)

\* C8: when a request resolved to a provider reaches the cache lookup and the
\* cache holds an entry within its TTL that was stored for the same provider,
\* sanitized task and sanitized context, under whatever strategy, the request
\* is answered with that entry's response and makes no provider call.
C8_SharedEntry ==
  [][\A r \in Reqs :
       (req[r].pc = "routed" /\ req'[r] # req[r] /\ req[r].provider \in mainProviders) =>
         \A i \in 1..Len(requestCache) :
           (/\ origin[requestCache[i].key].provider = req[r].provider
            /\ origin[requestCache[i].key].task = req[r].sTask
            /\ origin[requestCache[i].key].context = req[r].sCtx
            /\ now - requestCache[i].timestamp < config.cacheTtl) =>
             /\ last'.done
             /\ last'.ok
             /\ last'.fromCache
             /\ last'.text = requestCache[i].response
             /\ AnswerPosts(last'.http) = {}]_vars

\* a request has just been answered from an entry that a request with another
\* strategy stored
C8_Witness ==
  /\ last.done
  /\ last.fromCache
  /\ AnswerPosts(last.http) = {}
  /\ \E i \in 1..Len(requestCache) :
       /\ requestCache[i].key = cacheKey([provider |-> last.provider,
                                          sTask |-> sanitizeInput(last.task),
                                          sCtx |-> sanitizeInput(last.context)])
       /\ origin[requestCache[i].key].strategy # last.model
       /\ origin[requestCache[i].key].provider = last.provider
       /\ requestCache[i].response = last.text

\* the provider of each fixed strategy
FixedRoute ==
  [intelligence |-> "openai", cost |-> "deepseek", balance |-> "google",
   deepseek |-> "deepseek", google |-> "google", openai |-> "openai"]

BeforeRouting == {"RATE_LIMIT_EXCEEDED", "UNKNOWN_TOOL", "INVALID_INPUT"}

Dispatchable(decision) ==
  /\ decision.kind = "ok"
  /\ \E p \in {"deepseek", "google", "openai"} :
       Spell(p) = trim(toLowerCase(decision.content))

\* C10: a request with strategy auto whose routing call failed, or answered
\* with anything but a provider id, is resolved to google; once its routing
\* call is over, an auto request goes on to the cache lookup with a provider it
\* can dispatch to, and it fails only if a call to that provider was made.
C10_AutoFallsBack ==
  /\ \A r \in Reqs :
       (req[r].model = "auto" /\ req[r].pc \notin {"idle", "routing"}) =>
         /\ req[r].provider \in mainProviders
         /\ ~Dispatchable(req[r].decision) => req[r].provider = "google"
  /\ (last.done /\ last.model = "auto" /\ last.decision.kind # "none") =>
       /\ last.lookups = 1
       /\ last.provider \in mainProviders
       /\ ~Dispatchable(last.decision) => last.provider = "google"
       /\ ~last.ok => AnswerPosts(last.http) # {}

\* an auto request whose routing call failed has been answered by google
C10_Witness ==
  /\ last.done
  /\ last.ok
  /\ ~last.fromCache
  /\ last.model = "auto"
  /\ last.decision.kind = "transient"
  /\ last.provider = "google"
  /\ Len(last.http) = 2

\* the strategy names the server knows
KnownStrategies ==
  {"auto", "intelligence", "cost", "balance", "all", "deepseek", "google", "openai"}

\* C11, as stated: every request whose strategy is not a known strategy name
\* fails with UNKNOWN_STRATEGY, resolved to no provider, having made no cache
\* lookup and no HTTP call.
C11_AsStated ==
  (last.done /\ last.model \notin KnownStrategies) =>
    /\ ~last.ok
    /\ last.code = "UNKNOWN_STRATEGY"
    /\ last.provider = ""
    /\ last.lookups = 0
    /\ last.http = <<>>

\* C11, amended: a request whose strategy is not a known strategy name fails in
\* the step that receives it, resolved to no provider, with no cache lookup, no
\* HTTP call and the cache and its counters unchanged; it fails with
\* UNKNOWN_STRATEGY exactly when the rate limiter admits it, its tool name is
\* known and its input is valid, and otherwise with RATE_LIMIT_EXCEEDED,
\* UNKNOWN_TOOL or INVALID_INPUT.
C11_UnknownStrategy ==
  [][/\ \A r \in Reqs : req'[r].pc # "idle" => req'[r].model \in KnownStrategies
     /\ (last'.done /\ last'.model \notin KnownStrategies) =>
          /\ ~last'.ok
          /\ last'.provider = ""
          /\ last'.lookups = 0
          /\ last'.http = <<>>
          /\ req' = req
          /\ requestCache' = requestCache
          /\ cacheMetrics' = cacheMetrics
          /\ last'.code \in BeforeRouting \cup {"UNKNOWN_STRATEGY"}
          /\ (last'.code = "UNKNOWN_STRATEGY") <=>
               /\ rateLimitTracker' # rateLimitTracker
               /\ last'.name \in validTools
               /\ validateInput(last'.task, last'.context).isValid]_vars

\* a well-formed request with a strategy no version of the server documents
\* is refused for its strategy while the cache holds an entry
C11_Witness ==
  /\ last.done
  /\ last.model = "fastest"
  /\ last.code = "UNKNOWN_STRATEGY"
  /\ last.provider = ""
  /\ Len(requestCache) > 0

\* a POST that failed in a way the retry loop goes round again for
Transient(outcome) == outcome.kind \notin {"ok", "client"}

\* the request reached the provider dispatch: it missed the cache
Dispatched(l) == l.done /\ l.lookups = 1 /\ ~l.fromCache /\ l.results = <<>>

C13_ClientErrorFinal ==
  /\ \A r \in Reqs : \A i \in 1..Len(req[r].tried) : req[r].tried[i].kind # "client"
  /\ Dispatched(last) =>
       LET n == Len(last.tried)
       IN  /\ \A i \in 1..(n - 1) : last.tried[i].kind # "client"
           /\ (n >= 1 /\ last.tried[n].kind = "client") =>
                /\ ~last.ok
                /\ last.code = "CLIENT_ERROR"
                /\ last.cause = "client"
                /\ Cardinality(AnswerPosts(last.http)) = n
           /\ (last.code = "CLIENT_ERROR") => (n >= 1 /\ last.tried[n].kind = "client")

\* with maxRetries 3: the first attempt timed out, the second was refused with
\* a 4xx, and the request has failed with one attempt left unused
C13_Witness ==
  /\ config.maxRetries = 3
  /\ Dispatched(last)
  /\ last.code = "CLIENT_ERROR"
  /\ Len(last.tried) = 2
  /\ last.tried[1] = Timeout
  /\ last.tried[2] = ClientRefusal
  /\ Len(last.http) = 2

\* the lines of a text, and a run of lines found in it
Elements(text) == {text[i] : i \in 1..Len(text)}

Within(part, text) ==
  \E k \in 0..(Len(text) - Len(part)) : \A i \in 1..Len(part) : text[k + i] = part[i]

\* a fan-out has just settled
FanDone(l) == l.done /\ l.results # <<>>

Succeeded(results) == {i \in 1..Len(results) : results[i].success}

Failed(results) == {i \in 1..Len(results) : ~results[i].success}

\* C14: when a fan-out settles with at least one advisor that answered and at
\* least one that failed, the request returns normally, its text holds the
\* answer of every advisor that answered, and it names every advisor that
\* failed together with the reason for its failure.
C14_PartialFailure ==
  (FanDone(last) /\ Succeeded(last.results) # {} /\ Failed(last.results) # {}) =>
    /\ last.ok
    /\ \A i \in Succeeded(last.results) : Within(last.results[i].response, last.text)
    /\ \A i \in Failed(last.results) :
         /\ MODEL_NAMES[last.results[i].model] \in Elements(last.text)
         /\ last.results[i].error \in Elements(last.text)

\* C15: when a fan-out settles with every advisor failed, the request fails:
\* the caller gets an error, not a text.
C15_AllFailedPropagates ==
  (FanDone(last) /\ Succeeded(last.results) = {}) => ~last.ok

\* what the dispatch of one advisor produced, from the POSTs it made
Produced(f) ==
  LET n == Len(f.tried)
  IN  IF n >= 1 /\ f.tried[n].kind = "ok"
        THEN [success |-> TRUE, response |-> callOpenRouter(f.tried[n]), error |-> "none"]
      ELSE IF n >= 1 /\ f.tried[n].kind = "client"
        THEN [success |-> FALSE, response |-> <<>>, error |-> "CLIENT_ERROR"]
      ELSE [success |-> FALSE, response |-> <<>>, error |-> "MAX_RETRIES_EXCEEDED"]

\* C16: a fan-out posts to every key of MODELS in the step that starts it; each
\* later step changes the dispatch of one advisor at most and none that has
\* settled; the result is composed in a step that finds every dispatch
\* settled, and it holds one outcome per key, in the order of the keys, each
\* being what the dispatch of that key produced, whichever of the others failed.
C16_FanOutIndependent ==
  [][\A r \in Reqs :
       /\ (req[r].pc = "routed" /\ req'[r].pc = "fanout") =>
            /\ Len(req'[r].http) = Len(modelKeys)
            /\ \A i \in 1..Len(modelKeys) :
                 /\ req'[r].fan[i].st = "http"
                 /\ req'[r].fan[i].tried = <<>>
                 /\ req'[r].http[i].to = MODELS[modelKeys[i]]
       /\ (req[r].pc = "fanout" /\ req'[r].pc = "fanout") =>
            /\ Cardinality({i \in 1..Len(modelKeys) : req'[r].fan[i] # req[r].fan[i]}) <= 1
            /\ \A i \in 1..Len(modelKeys) :
                 req[r].fan[i].st \in {"ok", "fail"} => req'[r].fan[i] = req[r].fan[i]
       /\ (req[r].pc = "fanout" /\ req'[r].pc # "fanout") =>
            /\ \A i \in 1..Len(modelKeys) : req[r].fan[i].st \in {"ok", "fail"}
            /\ last'.done
            /\ last'.slot = r
            /\ Len(last'.results) = Len(modelKeys)
            /\ \A i \in 1..Len(modelKeys) :
                 /\ last'.results[i].model = modelKeys[i]
                 /\ last'.results[i].success = Produced(req[r].fan[i]).success
                 /\ last'.results[i].response = Produced(req[r].fan[i]).response
                 /\ last'.results[i].error = Produced(req[r].fan[i]).error
                 /\ last'.results[i].attempts = Len(req[r].fan[i].tried)
                 /\ last'.results[i].attempts <= config.maxRetries
                 /\ last'.results[i].success =>
                      Within(last'.results[i].response, last'.text)]_vars

\* with maxRetries 2, a fan-out has settled with four different outcomes:
\* deepseek answered at once, google answered at its second attempt, openai
\* was refused, the fourth dispatch failed twice
C16_Witness ==
  /\ config.maxRetries = 2
  /\ FanDone(last)
  /\ last.results[1].success /\ last.results[1].attempts = 1
  /\ last.results[2].success /\ last.results[2].attempts = 2
  /\ last.results[3].error = "CLIENT_ERROR"
  /\ last.results[4].error = "MAX_RETRIES_EXCEEDED"
  /\ Len(last.http) = 6

\* The circuit breaker the claims C17 and C18 describe, one per provider, as a
\* function of the calls made and of what they did: the configuration of the
\* breaker, its states, and the state after one more event.
FailureThreshold == 2
RecoveryTimeout == 2
HalfOpenMaxCalls == 1
SuccessThreshold == 1

Closed ==
  [state |-> "CLOSED", failures |-> 0, since |-> 0, trials |-> 0, successes |-> 0,
   reopened |-> FALSE]

Open(t, reopened) ==
  [state |-> "OPEN", failures |-> 0, since |-> t, trials |-> 0, successes |-> 0,
   reopened |-> reopened]

\* OPEN becomes HALF_OPEN once recoveryTimeout has elapsed
AtTime(b, t) ==
  IF b.state = "OPEN" /\ t - b.since >= RecoveryTimeout
    THEN [b EXCEPT !.state = "HALF_OPEN", !.trials = 0, !.successes = 0]
    ELSE b

BreakerStep(b0, e) ==
  LET b == AtTime(b0, e.t)
  IN  IF e.ev = "call"
        THEN IF b.state = "HALF_OPEN" THEN [b EXCEPT !.trials = @ + 1] ELSE b
      ELSE IF e.ev = "ok"
        THEN IF b.state = "CLOSED" THEN [b EXCEPT !.failures = 0]
             ELSE IF b.state = "HALF_OPEN"
               THEN IF b.successes + 1 >= SuccessThreshold
                      THEN Closed ELSE [b EXCEPT !.successes = @ + 1]
             ELSE b
      ELSE IF e.ev = "fail"
        THEN IF b.state = "CLOSED"
               THEN IF b.failures + 1 >= FailureThreshold
                      THEN Open(e.t, FALSE) ELSE [b EXCEPT !.failures = @ + 1]
             ELSE IF b.state = "HALF_OPEN" THEN Open(e.t, TRUE)
             ELSE b
      ELSE b

\* the breaker of provider `to` after the first k events of the log
RECURSIVE BreakerAfter(_, _, _)
BreakerAfter(log, k, to) ==
  IF k = 0 THEN Closed
  ELSE LET b == BreakerAfter(log, k - 1, to)
       IN  IF log[k].to = to THEN BreakerStep(b, log[k]) ELSE b

\* the breaker a dispatch finds: that of its provider, at the time it starts
BreakerFound(log, k) == AtTime(BreakerAfter(log, k - 1, log[k].to), log[k].t)

\* C17: once FailureThreshold attempts in a row against a provider have failed
\* (a success in between starts the count again), no dispatch that starts
\* before recoveryTimeout has elapsed makes a POST to that provider.
C17_FailFast ==
  (probe.op = "calls") =>
    \A k \in 1..Len(probe.log) :
      (probe.log[k].ev = "call") =>
        LET b == BreakerFound(probe.log, k)
        IN  ~(b.state = "OPEN" /\ ~b.reopened)

\* C18: once recoveryTimeout has elapsed the breaker lets through
\* HalfOpenMaxCalls dispatches at most until it is closed again by
\* SuccessThreshold successes in a row, and after a failure among them no
\* dispatch makes a POST before recoveryTimeout has elapsed anew.
C18_Recovery ==
  (probe.op = "calls") =>
    \A k \in 1..Len(probe.log) :
      (probe.log[k].ev = "call") =>
        LET b == BreakerFound(probe.log, k)
        IN  /\ ~(b.state = "OPEN" /\ b.reopened)
            /\ (b.state = "HALF_OPEN") => (b.trials < HalfOpenMaxCalls)

\* C19: no request, fan-out included, sends the user's task to the routing
\* model for an answer, and no combined result holds an outcome of the router.
C19_RouterNeverAnswers ==
  /\ \A r \in Reqs : \A i \in AnswerPosts(req[r].http) :
       req[r].http[i].to # MODELS.router
  /\ last.done =>
       /\ \A i \in AnswerPosts(last.http) : last.http[i].to # MODELS.router
       /\ \A i \in 1..Len(last.results) : last.results[i].model # "router"

\* C20: a request with strategy random that the rate limiter admits, with a
\* known tool and a valid input, is resolved to one of deepseek, google and
\* openai, never to the router and never to an error, and goes on to the cache
\* lookup and the dispatch to that provider.
C20_RandomDispatched ==
  /\ \A r \in Reqs :
       (req[r].model = "random" /\ req[r].pc \notin {"idle", "routing", "routed"}) =>
         req[r].provider \in mainProviders
  /\ (last.done /\ last.model = "random" /\ last.code \notin BeforeRouting) =>
       /\ last.provider \in mainProviders
       /\ last.code \notin {"UNKNOWN_STRATEGY", "INVALID_PROVIDER"}
       /\ last.lookups = 1
       /\ ~last.fromCache => AnswerPosts(last.http) # {}

\* the routing table of the README: the provider of each documented strategy
\* and of each provider name
DocumentedRoute ==
  [intelligence |-> "claude", premium |-> "openai", speed |-> "xai",
   balance |-> "google", cost |-> "deepseek", all |-> "all", claude |-> "claude",
   openai |-> "openai", xai |-> "xai", google |-> "google", deepseek |-> "deepseek"]

\* C21: a request with a strategy name of the README that the rate limiter
\* admits, with a known tool and a valid input, is accepted (no UNKNOWN_STRATEGY)
\* and resolved to the provider the README gives for that name: intelligence to
\* claude, balance to google, cost to deepseek, all to all providers, and each
\* provider name to itself.
C21_DocumentedRouting ==
  /\ \A r \in Reqs :
       (req[r].pc # "idle" /\ req[r].model \in DOMAIN DocumentedRoute) =>
         req[r].provider = DocumentedRoute[req[r].model]
  /\ (last.done /\ last.model \in DOMAIN DocumentedRoute
        /\ last.code \notin BeforeRouting) =>
       /\ last.code # "UNKNOWN_STRATEGY"
       /\ last.provider = DocumentedRoute[last.model]

\* the POST answered with an empty choice list, or a first choice without content
EmptyAnswer(outcome) == outcome.kind = "ok" /\ outcome.content = <<>>

\* C22: a POST that succeeds with an empty choice list or without content ends
\* its request in that step: the request returns the marker 'No response
\* received' as its answer, from the provider and not from the cache, and no
\* attempt follows the empty answer.
C22_EmptyAnswerIsSuccess ==
  /\ \A r \in Reqs : \A i \in 1..Len(req[r].tried) : ~EmptyAnswer(req[r].tried[i])
  /\ (last.done /\ \E i \in 1..Len(last.tried) : EmptyAnswer(last.tried[i])) =>
       /\ last.ok
       /\ ~last.fromCache
       /\ last.text = NoResponse
       /\ \A i \in 1..Len(last.tried) : EmptyAnswer(last.tried[i]) <=> i = Len(last.tried)
       /\ Cardinality(AnswerPosts(last.http)) = Len(last.tried)

\* an empty answer to the second attempt, after a timeout of the first
C22_Witness ==
  /\ last.done
  /\ last.ok
  /\ last.text = NoResponse
  /\ last.tried = <<Timeout, Answered(<<>>)>>

\* the entries of the log of provider calls that start a dispatch
CallsLogged(log) == {i \in 1..Len(log) : log[i].ev = "call"}

\* C23: with a cache TTL of 0 every cache lookup is a miss and is followed by
\* a dispatch to the provider: no request is answered from the cache, and every
\* request that the rate limiter admits, with a known tool, a valid input and a
\* known strategy, makes its lookup and then its call to the provider.
C23_ZeroTtlNeverHits ==
  config.cacheTtl = 0 =>
    /\ cacheMetrics.hits = 0
    /\ cacheMetrics.misses = cacheMetrics.totalRequests
    /\ Cardinality(CallsLogged(probe.log)) = cacheMetrics.totalRequests
    /\ \A r \in Reqs :
         req[r].pc \in {"http", "delay"} =>
           req[r].lookups = 1 /\ AnswerPosts(req[r].http) # {}
    /\ last.done =>
         /\ ~last.fromCache
         /\ last.code \notin (BeforeRouting \cup {"UNKNOWN_STRATEGY"}) =>
              last.lookups = 1 /\ AnswerPosts(last.http) # {}

\* a request was answered and its answer stored, and a second request with the
\* same key, looked up in the same instant, has been sent to the provider
C23_Witness ==
  /\ config.cacheTtl = 0
  /\ now = 0
  /\ probe.log = <<Event("call", "deepseek", 0), Event("ok", "deepseek", 0),
                   Event("call", "deepseek", 0)>>
  /\ cacheMetrics.misses = 2
  /\ \E r \in Reqs : req[r].pc = "http" /\ req[r].lookups = 1
                       /\ cacheKey(req[r]) \notin CacheKeys(requestCache)

\* the calls before call k of the log that came in under the same tool name,
\* were admitted, and lie no more than the window length back
AdmittedBefore(log, k) ==
  {j \in 1..(k - 1) :
     /\ log[j].name = log[k].name
     /\ log[j].ok
     /\ log[k].t - log[j].t <= config.rateLimitWindow}

\* C24: a request is denied by the rate limiter only when the requests made
\* under its own identity (its tool name) have used up the limit in the current
\* window: requests under another identity never count against it.
C24_KeyedByIdentity ==
  probe.op = "callers" =>
    \A k \in 1..Len(probe.log) :
      ~probe.log[k].ok =>
        Cardinality(AdmittedBefore(probe.log, k)) >= config.rateLimitRequests

\* C25: the key of a fan-out is no key of a single provider, whatever the
\* tasks, contexts and tool name: a lookup under a fan-out key finds only what
\* a fan-out stored, and a lookup under a single-provider key only what a
\* single-provider request stored.
C25_FanOutKeyApart ==
  /\ \A k \in CacheKeys(requestCache) :
       \A q \in KeyedRequests :
         KeyOf(q) = k => ((q.provider = "all") <=> (origin[k].provider = "all"))
  /\ (probe.op = "lookup" /\ probe.found) =>
       ((probe.provider = "all") <=> (probe.from = "all"))

\* a single-provider lookup has missed while the answer of a fan-out for the
\* same task and context is in the cache
C25_Witness ==
  /\ probe.op = "lookup"
  /\ probe.provider = "google"
  /\ ~probe.found
  /\ \E k \in CacheKeys(requestCache) :
       /\ origin[k].provider = "all"
       /\ probe.key = singleCacheKey("google", origin[k].task, origin[k].context)

\* the age of the window that the client of this step's checkRateLimit had
\* when the call was made (the client had a window)
WindowAge == now - probe.tracker[probe.clientId].windowStart

Checked == probe.op = "checkRateLimit" /\ probe.clientId \in DOMAIN probe.tracker

\* the call has started a new window: count 1, begun now, request admitted
WindowReset ==
  /\ probe.ok
  /\ rateLimitTracker[probe.clientId] = [count |-> 1, windowStart |-> now]

\* C26, as stated: a request made when now - windowStart >= windowLength, the
\* instant where the two are equal included, resets the client's window: the
\* count becomes 1 and the request is admitted.
C26_AsStated == (Checked /\ WindowAge >= config.rateLimitWindow) => WindowReset

\* C26, amended: a request made when now - windowStart > windowLength resets
\* the client's window (count 1, admitted); at the instant where now -
\* windowStart equals windowLength the window is still current: its start is
\* kept, and the request is admitted, and counted, only if the count is below
\* the limit.
C26_ResetsAfterWindow ==
  Checked =>
    LET old == probe.tracker[probe.clientId]
        new == rateLimitTracker[probe.clientId]
    IN  /\ (WindowAge > config.rateLimitWindow) => WindowReset
        /\ (WindowAge <= config.rateLimitWindow) =>
             /\ new.windowStart = old.windowStart
             /\ probe.ok <=> (old.count < config.rateLimitRequests)
             /\ new.count = IF probe.ok THEN old.count + 1 ELSE old.count

\* a request at the instant where the window length has just passed finds the
\* limit used up and is denied
C26_Witness ==
  /\ Checked
  /\ config.rateLimitRequests >= 1
  /\ WindowAge = config.rateLimitWindow
  /\ ~probe.ok
  /\ rateLimitTracker[probe.clientId].windowStart = now - config.rateLimitWindow

\* no window of the tracker counts more than n requests
CountsWithin(n) ==
  \A c \in DOMAIN rateLimitTracker : rateLimitTracker[c].count <= n

\* the checkRateLimit of this step denied its request and changed no window
DeniedUnchanged ==
  (probe.op = "checkRateLimit" /\ ~probe.ok) => rateLimitTracker = probe.tracker

\* C27, as stated: in every reachable state the count of each rate window is
\* at most the limit, and a denied request leaves every window as it was.
C27_AsStated == CountsWithin(config.rateLimitRequests) /\ DeniedUnchanged

\* C27, amended: with a limit of 1 or more the count of each rate window is at
\* most the limit in every reachable state; with a limit of 0 the request that
\* opens a window is still admitted and the count is 1; a denied request leaves
\* the count and the start of every window unchanged.
C27_CountWithinLimit ==
  /\ (config.rateLimitRequests >= 1) => CountsWithin(config.rateLimitRequests)
  /\ (config.rateLimitRequests = 0) => CountsWithin(1)
  /\ DeniedUnchanged

\* a window has reached a limit of 2 and the client's next request was denied
C27_Witness ==
  /\ probe.op = "checkRateLimit"
  /\ ~probe.ok
  /\ config.rateLimitRequests = 2
  /\ probe.tracker[probe.clientId].count = 2
  /\ rateLimitTracker = probe.tracker

\* in this step callTool refused a request with INVALID_INPUT
RefusesInvalid == ncalls' # ncalls /\ last'.done /\ last'.code = "INVALID_INPUT"

\* C28, as stated: a request rejected with INVALID_INPUT leaves the rate-limit
\* window as it was and uses none of the client's quota.
C28_AsStated == [][RefusesInvalid => rateLimitTracker' = rateLimitTracker]_vars

\* C28, amended: the rate limiter is consulted before validation, so a request
\* rejected with INVALID_INPUT is one the limiter admitted and counted: it has
\* opened a window with count 1, or raised the count of the current window by
\* one from below the limit.
C28_InvalidIsCounted ==
  [][RefusesInvalid =>
       /\ "default" \in DOMAIN rateLimitTracker'
       /\ LET new == rateLimitTracker'["default"]
          IN  \/ /\ new = [count |-> 1, windowStart |-> now]
                 /\ \/ "default" \notin DOMAIN rateLimitTracker
                    \/ now - rateLimitTracker["default"].windowStart
                         > config.rateLimitWindow
              \/ /\ "default" \in DOMAIN rateLimitTracker
                 /\ rateLimitTracker["default"].count < config.rateLimitRequests
                 /\ new = [rateLimitTracker["default"] EXCEPT !.count = @ + 1]]_vars

\* the first request was refused as invalid, and the limiter's window, with a
\* limit of 1, is used up by it
C28_Witness ==
  /\ last.done
  /\ last.code = "INVALID_INPUT"
  /\ ncalls = 1
  /\ config.rateLimitRequests = 1
  /\ rateLimitTracker["default"] = [count |-> 1, windowStart |-> now]
  /\ Denied

\* the provider that the answer of the routing model names, google when the
\* routing call failed or named none
Resolution(decision) ==
  IF Dispatchable(decision)
    THEN CHOOSE p \in {"deepseek", "google", "openai"} :
           Spell(p) = trim(toLowerCase(decision.content))
    ELSE "google"

\* what C29 says of the HTTP calls of an auto request q: one routing call, the
\* first call of all, and after it has settled the calls for the answer, each
\* to the model of the provider the resolution gave
RoutedFirst(q) ==
  /\ q.http # <<>>
  /\ RoutingPosts(q.http) = {1}
  /\ q.http[1].to = MODELS.router
  /\ AnswerPosts(q.http) # {} =>
       /\ q.decision.kind # "none"
       /\ q.provider = Resolution(q.decision)
       /\ \A i \in AnswerPosts(q.http) : q.http[i].to = MODELS[q.provider]

\* C29: an auto request makes its routing call first and makes no call to a
\* provider while that call is out; a call for the answer is issued only in a
\* later step, after the routing call has settled with a decision or a
\* failure, and goes to the provider that decision resolves to.
C29_RoutingBeforeDispatch ==
  [][/\ \A r \in Reqs :
          (req'[r].model = "auto" /\ req'[r].pc # "idle") =>
            /\ RoutedFirst(req'[r])
            /\ (req'[r].pc = "routing") => AnswerPosts(req'[r].http) = {}
            /\ (AnswerPosts(req'[r].http) # AnswerPosts(req[r].http)) =>
                 /\ req[r].model = "auto"
                 /\ req[r].pc \notin {"idle", "routing"}
                 /\ req[r].decision.kind # "none"
                 /\ req[r].provider = req'[r].provider
     /\ (last'.done /\ last'.model = "auto" /\ last'.code \notin BeforeRouting) =>
          RoutedFirst(last')]_vars

\* an auto request whose routing call answered " DeepSeek" has been answered by
\* deepseek: the routing call, then the call to deepseek
C29_Witness ==
  /\ last.done
  /\ last.ok
  /\ ~last.fromCache
  /\ last.model = "auto"
  /\ Dispatchable(last.decision)
  /\ last.provider = "deepseek"
  /\ Len(last.http) = 2
  /\ last.http[1].to = MODELS.router
  /\ last.http[2].to = MODELS.deepseek

\* the outcome of the POST that has just settled for the request q
LastTried(q) == q.tried[Len(q.tried)]

\* C30: a wait begins only when an attempt has failed in a way that is not a
\* client error (a timeout is one such way) and is not the last attempt; the
\* wait after attempt i is set to end exactly 2^i seconds after the failure,
\* and attempt i+1 is posted when it has ended, not before.  The first attempt
\* is posted in the step of the cache lookup, with no wait, and the failure of
\* the last attempt ends the request in its own step, with no wait.
C30_Backoff ==
  [][\A r \in Reqs :
       /\ (req'[r].pc = "delay" /\ req[r].pc # "delay") =>
            /\ req[r].pc = "http"
            /\ Transient(LastTried(req'[r]))
            /\ req[r].attempt < config.maxRetries - 1
            /\ req'[r].attempt = req[r].attempt
            /\ req'[r].wake = now + 2 ^ req[r].attempt
       /\ (req[r].pc = "http" /\ last'.done /\ last'.slot = r
             /\ Transient(LastTried(last'))) =>
            /\ req[r].attempt = config.maxRetries - 1
            /\ last'.code = "MAX_RETRIES_EXCEEDED"
       /\ (req[r].pc = "delay" /\ req'[r] # req[r]) =>
            /\ now >= req[r].wake
            /\ req'[r].pc = "http"
            /\ req'[r].attempt = req[r].attempt + 1
            /\ Len(req'[r].http) = Len(req[r].http) + 1
       /\ (req[r].pc = "routed" /\ req'[r].pc # "routed" /\ ~last'.done) =>
            /\ req'[r].pc = "http"
            /\ req'[r].attempt = 0
            /\ now' = now]_vars

\* the third attempt (index 2) has timed out after waits of 1 and 2 seconds, and
\* the wait before the fourth is set to 4 seconds
C30_Witness ==
  \E r \in Reqs :
    /\ req[r].pc = "delay"
    /\ req[r].attempt = 2
    /\ LastTried(req[r]) = Timeout
    /\ now = 3
    /\ req[r].wake = now + 4

\* the entries of a cache other than the one under key
Others(cache, key) == {cache[i] : i \in 1..Len(cache)} \ {cache[i] : i \in Held(cache, key)}

\* C31: hits + misses = totalRequests in every state; every get adds one to
\* totalRequests and one to hits or to misses, not to both; a hit adds exactly
\* 1 to the accessCount of the entry it returns and changes no other entry; a
\* miss changes the accessCount of no entry (it removes the entry under its
\* key, if there was one, and nothing else).
C31_MetricsConsistent ==
  /\ cacheMetrics.hits + cacheMetrics.misses = cacheMetrics.totalRequests
  /\ probe.op = "get" =>
       /\ cacheMetrics.totalRequests = probe.metrics.totalRequests + 1
       /\ cacheMetrics.hits + cacheMetrics.misses
            = probe.metrics.hits + probe.metrics.misses + 1
       /\ cacheMetrics.hits = probe.metrics.hits + (IF probe.found THEN 1 ELSE 0)
       /\ Others(requestCache, probe.key) = Others(probe.cache, probe.key)
       /\ IF probe.found
            THEN /\ Held(requestCache, probe.key) = Held(probe.cache, probe.key)
                 /\ \A i \in Held(probe.cache, probe.key) :
                      requestCache[i] = [probe.cache[i] EXCEPT !.accessCount = @ + 1]
            ELSE Held(requestCache, probe.key) = {}

\* the third lookup of a run: the second hit on an entry, after one miss
C31_Witness ==
  /\ probe.op = "get"
  /\ probe.found
  /\ cacheMetrics = [hits |-> 2, misses |-> 1, evictions |-> 0, totalRequests |-> 3]
  /\ Len(requestCache) = 1
  /\ requestCache[1].accessCount = 3

\* the words of a raw text: its maximal runs of characters that are neither
\* white space nor control characters, the control characters left out first
RECURSIVE WordsOf(_, _)
WordsOf(s, word) ==
  IF s = <<>> THEN (IF word = <<>> THEN <<>> ELSE <<word>>)
  ELSE IF IsControl(Head(s)) THEN WordsOf(Tail(s), word)
  ELSE IF IsSpace(Head(s))
    THEN (IF word = <<>> THEN <<>> ELSE <<word>>) \o WordsOf(Tail(s), <<>>)
  ELSE WordsOf(Tail(s), Append(word, Head(s)))

Words(s) == WordsOf(s, <<>>)

\* words put together again with one space between them
RECURSIVE Spaced(_)
Spaced(words) ==
  IF words = <<>> THEN <<>>
  ELSE IF Len(words) = 1 THEN words[1]
  ELSE words[1] \o <<" ">> \o Spaced(Tail(words))

\* C32: what a request carries to its cache key and to every HTTP call is the
\* sanitized text: the words of the raw task and context with single spaces
\* between them; so a request whose raw task and context have the same words
\* as those of the request that stored a live entry for the same provider, and
\* differ from them in control characters and white space only, is answered
\* from that entry.
C32_SanitizedFlows ==
  [][\A r \in Reqs :
       /\ (req'[r].pc # "idle") =>
            /\ req'[r].sTask = Spaced(Words(req'[r].task))
            /\ req'[r].sCtx = Spaced(Words(req'[r].context))
            /\ \A i \in 1..Len(req'[r].http) :
                 /\ req'[r].http[i].task = Spaced(Words(req'[r].task))
                 /\ req'[r].http[i].context = Spaced(Words(req'[r].context))
       /\ (req[r].pc = "routed" /\ req'[r] # req[r] /\ req[r].provider \in mainProviders) =>
            \A i \in 1..Len(requestCache) :
              (/\ origin[requestCache[i].key].provider = req[r].provider
               /\ Words(origin[requestCache[i].key].task) = Words(req[r].task)
               /\ Words(origin[requestCache[i].key].context) = Words(req[r].context)
               /\ now - requestCache[i].timestamp < config.cacheTtl) =>
                /\ last'.done
                /\ last'.fromCache
                /\ last'.text = requestCache[i].response
                /\ AnswerPosts(last'.http) = {}]_vars

\* a request whose raw task has a leading space, a control character and a
\* trailing tab has been answered from the entry stored for the plain task
C32_Witness ==
  /\ last.done
  /\ last.fromCache
  /\ last.task = TaskSpaced
  /\ last.provider = "deepseek"
  /\ \E i \in 1..Len(requestCache) :
       /\ origin[requestCache[i].key].provider = "deepseek"
       /\ origin[requestCache[i].key].task = TaskPlain
       /\ origin[requestCache[i].key].task # last.task
       /\ requestCache[i].response = last.text

\* the dispatch of a single-provider request has just failed
DispatchFailed(l) == Dispatched(l) /\ ~l.ok /\ l.provider \in mainProviders

\* the request in slot r asks what the request that has just finished asked
Identical(r, l) ==
  /\ req[r].provider = l.provider
  /\ req[r].sTask = sanitizeInput(l.task)
  /\ req[r].sCtx = sanitizeInput(l.context)

C34_KeysInjective ==
  (probe.op = "lookup" /\ probe.found) =>
    /\ origin[probe.key].provider = probe.provider
    /\ origin[probe.key].task = probe.task
    /\ origin[probe.key].context = probe.context

\* the line with which a combined text reports its failed advisors
FailureNote == "Note: advisor(s) encountered errors:"

\* C35: a fan-out that settles with one or more advisors failed leaves no
\* entry under its key, and no fan-out request is answered from the cache
\* with a text that reports a failed advisor.
C35_FailuresNotCached ==
  /\ (FanDone(last) /\ Failed(last.results) # {}) =>
       Held(requestCache, allCacheKey(sanitizeInput(last.task),
                                      sanitizeInput(last.context), last.name)) = {}
  /\ (last.done /\ last.provider = "all" /\ last.fromCache) =>
       FailureNote \notin Elements(last.text)

\* C36: an input that passes validateInput is still free of every signature
\* once sanitized: neither the sanitized task nor the sanitized context
\* matches a script or a prompt-override signature, and the two together pass
\* validateInput.
C36_SanitizedStillValid ==
  (probe.op = "validateInput" /\ probe.result.isValid) =>
    LET task == sanitizeInput(probe.task)
        context == sanitizeInput(probe.context)
    IN  /\ ~scriptInjectionPatterns(task)
        /\ ~promptInjectionPatterns(task)
        /\ ~scriptInjectionPatterns(context)
        /\ ~promptInjectionPatterns(context)
        /\ validateInput(task, context).isValid

\* C37: a put under a key that the cache holds, made when the cache is full,
\* leaves the cache with the keys it had: the entry of the key now holds the
\* new response, stamped with the time of the put, and every other entry is
\* as it was.
C37_OverwriteKeepsOthers ==
  (/\ probe.op = "put"
   /\ probe.key \in CacheKeys(probe.cache)
   /\ Len(probe.cache) >= config.maxCacheSize) =>
    /\ CacheKeys(requestCache) = CacheKeys(probe.cache)
    /\ Others(requestCache, probe.key) = Others(probe.cache, probe.key)
    /\ \A i \in Held(requestCache, probe.key) :
         /\ requestCache[i].response = probe.response
         /\ requestCache[i].timestamp = now

\* the entries of cache whose key the cache of this state no longer holds
Gone(cache) == {i \in 1..Len(cache) : cache[i].key \notin CacheKeys(requestCache)}

C39_OneRoutingCall ==
  [][/\ \A r \in Reqs :
          /\ (req'[r].model = "auto" /\ req'[r].pc # "idle") =>
               /\ RoutingPosts(req'[r].http) = {1}
               /\ req'[r].http[1].to = MODELS.router
               /\ (req'[r].pc = "routing") =>
                    /\ req'[r].lookups = 0
                    /\ Len(req'[r].http) = 1
               /\ (req[r].pc = "idle") =>
                    /\ req'[r].pc = "routing"
                    /\ cacheMetrics' = cacheMetrics
                    /\ requestCache' = requestCache
          /\ (req[r].pc = "routing" /\ req'[r] # req[r]) =>
               /\ req'[r].pc = "routed"
               /\ req'[r].http = req[r].http
               /\ req'[r].wake = 0
               /\ req'[r].lookups = 0
               /\ now' = now
     /\ (last'.done /\ last'.model = "auto" /\ last'.code \notin BeforeRouting) =>
          /\ RoutingPosts(last'.http) = {1}
          /\ last'.lookups = 1
          /\ last'.fromCache => Len(last'.http) = 1]_vars

\* an auto request whose routing call failed has been answered from the entry
\* that a request for google stored, having made the routing call only
C39_Witness ==
  /\ last.done
  /\ last.ok
  /\ last.fromCache
  /\ last.model = "auto"
  /\ last.decision.kind = "transient"
  /\ last.provider = "google"
  /\ Len(last.http) = 1
  /\ last.http[1].to = MODELS.router
  /\ last.lookups = 1

\* what C40 says of a finished dispatch, with `least` as the lowest number of
\* attempts: between `least` and maxRetries POSTs, then an answer or one of the
\* two failures of the dispatcher
AttemptsRule(least) ==
  (Dispatched(last) /\ last.provider \in mainProviders) =>
    /\ Len(last.tried) >= least
    /\ Len(last.tried) <= config.maxRetries
    /\ Cardinality(AnswerPosts(last.http)) = Len(last.tried)
    /\ last.ok \/ last.code \in {"CLIENT_ERROR", "MAX_RETRIES_EXCEEDED"}

\* every request that callTool has taken up comes to its end
Terminates == \A r \in Reqs : (req[r].pc # "idle") ~> (last.done /\ last.slot = r)

====
